---- MODULE Spec2Model ----
(***************************************************************************)
(* Cross-process OAuth token lifecycle of Delta Code.                      *)
(*                                                                         *)
(* Modelled here: the Shared Token Manager (getValidCredentials with its   *)
(* in-process single-flight slot, its file-backed cache and its lock       *)
(* marker), and the parts of DeltaOAuth2Client it drives                    *)
(* (packages/core/src/delta/qwenOAuth2.ts: refreshAccessToken,             *)
(* isTokenValid, clearDeltaCredentials).  sharedTokenManager.ts itself is  *)
(* not among the source files; its operations follow spec.md 4.1, 4.2 and  *)
(* the test suite of the manager (packages/core/src/core/                  *)
(* contentGenerator.ts, lines 236-994).                                    *)
(*                                                                         *)
(* Time is in milliseconds.  The clock only advances where the program     *)
(* spends time: a refresh request on the network, the wait between two     *)
(* lock attempts, and idle time between calls.                             *)
(***************************************************************************)
EXTENDS Integers, FiniteSets, Sequences, TLC

\* ------------------------------------------------------------------ bounds
NumProcs == 2
NumCallers == 2
MaxClockSteps == 5

Procs == 1..NumProcs
Callers == 1..NumCallers
K == Procs \X Callers

\* ------------------------------------------------------- program constants
TOKEN_REFRESH_BUFFER_MS == 30 * 1000
\* age beyond which a lock marker counts as stale
LOCK_TIMEOUT_MS == 15 * 1000
\* lockConfig: attempts and wait between attempts
MaxAttempts == 3
AttemptInterval == 5 * 1000
\* expires_in of a refresh response, in seconds
EXPIRES_IN == 3600

\* ------------------------------------------------------------- environment
ClockStep == 5 * 1000
StartTime == 4 * 3600 * 1000
MaxClock == StartTime + MaxClockSteps * ClockStep
\* how long a refresh request may take on the network
NetDelays == {ClockStep, 4 * ClockStep}
\* idle time between two events of the system
IdleStep == 3 * ClockStep

\* ------------------------------------------------------- credential records
\* access_token / refresh_token: 0 stands for an absent field; expiry_date 0
\* stands for an absent expiry_date (JavaScript treats both as falsy).
NoCreds == [access_token |-> 0, refresh_token |-> 0, expiry_date |-> 0]

Creds(a, r, e) == [access_token |-> a, refresh_token |-> r, expiry_date |-> e]

\* mutant: the refresh buffer is forgotten
isTokenValid_NoBuffer(creds, t) ==
    IF creds.expiry_date = 0 THEN FALSE ELSE t < creds.expiry_date

\* DeltaOAuth2Client.isTokenValid, with Date.now() passed as t
isTokenValid(creds, t) ==
    IF creds.expiry_date = 0
    THEN FALSE
    ELSE t < creds.expiry_date - TOKEN_REFRESH_BUFFER_MS

\* createExpiredCredentials / createValidCredentials of the manager's tests,
\* and a record that lacks its refresh_token
ExpiredCredentials == Creds(1, 1, StartTime - 3600000)
ExpiredNoRefreshToken == Creds(1, 0, StartTime - 3600000)
\* valid at StartTime, inside the buffer 15 s later
SoonExpiringCredentials == Creds(1, 1, StartTime + 9 * ClockStep)
InitRecords == {ExpiredCredentials, ExpiredNoRefreshToken, SoonExpiringCredentials}

NoFile == [exists |-> FALSE, creds |-> NoCreds, mtime |-> 0]
NoLock == [exists |-> FALSE, mtime |-> 0, owner |-> 0]
NoOutcome == [via |-> "none", creds |-> NoCreds, err |-> "none"]

VARIABLES
    now,            \* Date.now()
    file,           \* the credential file: exists, creds, mtime
    lock,           \* the lock marker: exists, mtime, owner (0: a crashed process)
    issued,         \* token sets the server has handed out
    memoryCache,    \* per process: credentials, fileModTime
    credentials,    \* per process: DeltaOAuth2Client.credentials
    refreshPromise, \* per process: 0, or the caller whose refresh is in flight
    pending,        \* per process: what the refresh in flight will settle with
    pc,             \* per call: where getValidCredentials stands
    forceRefresh,   \* per call: the forceRefresh argument
    attempt,        \* per call: failed lock attempts so far
    outcome,        \* per call: how it settled
    obs,            \* per call: what it observed on its way (history)
    fpc,            \* device flow: where authWithDeltaDeviceFlow stands
    fAttempt,       \* device flow: attempt, the loop counter
    fMax,           \* device flow: maxAttempts
    pollInterval,   \* device flow: the wait before the next poll, in ms
    isCancelled,    \* device flow: the flag the AuthCancel handler sets
    elapsedTime,    \* device flow: time spent in the current wait, in ms
    fResult,        \* device flow: the reason it returned with
    events,         \* device flow: the AuthProgress events emitted, in order
    fobs,           \* device flow: what happened on its way (history)
    client,         \* getDeltaOAuthClient: where it stands and how it settled
    logger,         \* DeltaLogger: events, isFlushInProgress, pendingFlush
    flights,        \* DeltaLogger: the flushToRum calls that are awaiting
    lobs,           \* DeltaLogger: what happened to the events (history)
    keypress,       \* useKeypress: the variables of its effect closure
    stdin,          \* useKeypress: bytes the terminal wrote, not yet read
    kobs,           \* useKeypress: keys typed and keys delivered (history)
    ui              \* useDeltaAuth: its props, its state and its listeners

flowVars == <<fpc, fAttempt, fMax, pollInterval, isCancelled, elapsedTime,
              fResult, events, fobs>>

\* the variables of what is built on the token manager and the device flow
loggerVars == <<logger, flights, lobs>>
keysVars == <<keypress, stdin, kobs>>
appVars == <<client, loggerVars, keysVars, ui>>

vars == <<now, file, lock, issued, memoryCache, credentials, refreshPromise,
          pending, pc, forceRefresh, attempt, outcome, obs, flowVars, appVars>>

\* history of a call: it started against expired credentials (staleAtCall),
\* joined a refresh in flight (joined), replaced a cached record that was
\* still valid by the one on disk (replacedValid), sent net refresh
\* requests, found a stale marker (sawStale), held the lock (locked), wrote
\* the file (wrote), and got the answer resp to its refresh request
NoObs == [staleAtCall |-> FALSE, joined |-> FALSE, replacedValid |-> FALSE, net |-> 0,
          sawStale |-> FALSE, locked |-> FALSE, wrote |-> FALSE, resp |-> "none"]

\* ---------------------------------------------------------------- helpers
Proc(k) == k[1]

\* the record a process that already ran holds: either nothing yet (a fresh
\* process) or what it loaded from the credential file
InitCache(f) ==
    {[credentials |-> NoCreds, fileModTime |-> 0],
     [credentials |-> f.creds, fileModTime |-> f.mtime]}

\* the calls of the system are those of the callers in A; a process none of
\* whose callers is in A never runs
InitWith(A) ==
    /\ now = StartTime
    /\ \E r \in InitRecords :
          file = [exists |-> TRUE, creds |-> r, mtime |-> StartTime - 2 * ClockStep]
    \* no marker, or one a crashed process left behind a moment ago
    /\ lock \in {NoLock, [exists |-> TRUE, mtime |-> StartTime - ClockStep, owner |-> 0]}
    /\ issued = 0
    /\ memoryCache \in [Procs -> InitCache(file)]
    /\ credentials \in [Procs -> {NoCreds, file.creds}]
    /\ \A p \in Procs : (\A k \in A : Proc(k) # p) =>
          /\ memoryCache[p] = [credentials |-> NoCreds, fileModTime |-> 0]
          /\ credentials[p] = NoCreds
    /\ refreshPromise = [p \in Procs |-> 0]
    /\ pending = [p \in Procs |-> NoOutcome]
    /\ pc = [k \in K |-> IF k \in A THEN "idle" ELSE "off"]
    /\ forceRefresh = [k \in K |-> FALSE]
    /\ attempt = [k \in K |-> 0]
    /\ outcome = [k \in K |-> NoOutcome]
    /\ obs = [k \in K |-> NoObs]

\* history of the device flow: polls sent; the class of each of the first
\* three answers ("P" pending, "S" slow_down, "T" token, "E" anything else);
\* the length of each of the first two pending waits; where the flow stood
\* when AuthCancel was published (cancelIn), how many polls it had sent by
\* then (cancelPolls) and for how many ticks, counted up to two, it went on
\* waiting since then (afterCancel); the credential
\* file and the client's record when the flow was called; the record built
\* from the token response (built); whether that record reached the file
NoFlowObs == [polls |-> 0, resps |-> <<>>, waits |-> <<>>, cancelIn |-> "none",
              cancelPolls |-> 0, afterCancel |-> 0, file0 |-> NoFile,
              creds0 |-> NoCreds, built |-> NoCreds, wrote |-> FALSE,
              expires_in |-> 0]

NoEvent == [status |-> "none", message |-> "none"]

\* the flow variables of a system in which authWithDeltaDeviceFlow is at at
FlowAt(at) ==
    /\ fpc = at
    /\ fAttempt = 0
    /\ fMax = 0
    /\ pollInterval = 0
    /\ isCancelled = FALSE
    /\ elapsedTime = 0
    /\ fResult = "none"
    /\ events = [count |-> 0, last |-> NoEvent]
    /\ fobs = NoFlowObs

\* getDeltaOAuthClient: the step it is at (pc), whether
\* loadCachedDeltaCredentials returned true (loaded), the token its
\* getAccessToken call returned (0: none), how many times it ran the device
\* flow (flows) and how it settled (result)
NoClient == [pc |-> "off", loaded |-> FALSE, token |-> 0, flows |-> 0,
             result |-> "none"]

\* DeltaLogger as constructed
NoLogger == [events |-> <<>>, isFlushInProgress |-> FALSE, pendingFlush |-> FALSE]

\* history of the logger: the number of the next event (nextId), the calls
\* of flushToRum made from outside (calls), the calls of flushToRum that
\* got past the test of isFlushInProgress (began), how often each event
\* was sent successfully, counted up to two (sent), the events dropped by
\* the capacity of the queue or the retry limit (dropped), whether the last
\* enqueueLogEvent kept its event (kept), whether building a payload failed
NoLoggerObs == [nextId |-> 1, calls |-> 0, began |-> 0, sent |-> <<>>,
                dropped |-> {}, kept |-> TRUE, payloadFailed |-> FALSE]

\* the closure of the useKeypress effect as it starts
NoKeypress == [usePassthrough |-> FALSE, focusSeqState |-> 0,
               focusKeypressState |-> 0, focusKeypressTimer |-> 0,
               heldFocusPrefix |-> <<>>, suppressFocusIOCount |-> 0]

\* history of the keys: the ordinary keys typed, in order (typed), what
\* onKeypress was called with, in order (delivered), the number of keys and
\* focus changes so far (items), the number of focus changes (focus), how
\* many pieces of a focus sequence that arrives as separate keypress events
\* have arrived (split), and whether a 25 ms timer fired on a held prefix
\* (late)
NoKeysObs == [typed |-> <<>>, delivered |-> <<>>, items |-> 0, focus |-> 0,
              split |-> 0, late |-> FALSE]

\* useDeltaAuth as it is first rendered, not authenticating: the props
\* (isAuthenticating), whether its listeners are registered (listening), its
\* state (isDeltaAuthenticating, deviceAuth, authStatus, authMessage), the
\* number of AuthProgress events the emitter has passed on (seen), and
\* whether cancelDeltaAuth was called and authentication has not been
\* started since (afterCancel)
NoUi == [isAuthenticating |-> FALSE, listening |-> FALSE,
         isDeltaAuthenticating |-> FALSE, deviceAuth |-> FALSE,
         authStatus |-> "idle", authMessage |-> "none",
         seen |-> 0, afterCancel |-> FALSE]

\* nothing but the token manager and the device flow runs
AppOff ==
    /\ client = NoClient
    /\ logger = NoLogger
    /\ flights = {}
    /\ lobs = NoLoggerObs
    /\ keypress = NoKeypress
    /\ stdin = <<>>
    /\ kobs = NoKeysObs
    /\ ui = NoUi

\* one process, all its callers
InitOneProcess == InitWith({k \in K : Proc(k) = 1}) /\ FlowAt("off") /\ AppOff

\* all processes, one caller each
InitProcesses == InitWith({k \in K : k[2] = 1}) /\ FlowAt("off") /\ AppOff

\* mutant: the credential file is never looked at again
Reloaded_Never(cache) == cache

\* mutant: an absent file empties the cache
Reloaded_DropOnAbsent(cache) ==
    IF ~file.exists THEN [credentials |-> NoCreds, fileModTime |-> 0]
    ELSE IF file.mtime > cache.fileModTime
    THEN [credentials |-> file.creds, fileModTime |-> file.mtime]
    ELSE cache

\* checkAndReloadIfNeeded: stat the credential file and, when its
\* modification time is newer than the cached one, adopt the record on disk.
\* An absent file is the normal not-found case: the cache stays as it is.
Reloaded(cache) ==
    IF file.exists /\ file.mtime > cache.fileModTime
    THEN [credentials |-> file.creds, fileModTime |-> file.mtime]
    ELSE cache

\* every caller of process p that awaits the refresh in flight
Awaiters(p) == {k \in K : Proc(k) = p /\ pc[k] = "awaitShared"}

\* mutant: the single-flight slot stays taken when the refresh settles
Settle_KeepSlot(p, k, o) ==
    /\ refreshPromise' = refreshPromise
    /\ pending' = [pending EXCEPT ![p] = NoOutcome]
    /\ pc' = [j \in K |-> IF j = k \/ j \in Awaiters(p) THEN "done" ELSE pc[j]]
    /\ attempt' = [attempt EXCEPT ![k] = 0]
    /\ outcome' = [j \in K |->
                     IF j = k THEN o
                     ELSE IF j \in Awaiters(p) THEN [o EXCEPT !.via = "shared"]
                     ELSE outcome[j]]

\* the refresh in flight of process p settles with o: its owner k and every
\* awaiter get the same outcome in the same turn of the event loop
Settle(p, k, o) ==
    /\ refreshPromise' = [refreshPromise EXCEPT ![p] = 0]
    /\ pending' = [pending EXCEPT ![p] = NoOutcome]
    /\ pc' = [j \in K |-> IF j = k \/ j \in Awaiters(p) THEN "done" ELSE pc[j]]
    /\ attempt' = [attempt EXCEPT ![k] = 0]
    /\ outcome' = [j \in K |->
                     IF j = k THEN o
                     ELSE IF j \in Awaiters(p) THEN [o EXCEPT !.via = "shared"]
                     ELSE outcome[j]]

\* ------------------------------------------------------ getValidCredentials
\* the single-flight slot of a process is taken
InFlight(slot) == slot # 0

\* isRefreshInProgress of the manager of process p
isRefreshInProgress(p) == InFlight(refreshPromise[p])

\* Step 1: a call starts; with a refresh in flight it awaits that refresh.
GetValidCredentials(k, force) ==
    /\ pc[k] = "idle"
    /\ forceRefresh' = [forceRefresh EXCEPT ![k] = force]
    /\ pc' = [pc EXCEPT ![k] =
                IF InFlight(refreshPromise[Proc(k)]) THEN "awaitShared" ELSE "stat"]
    /\ obs' = [obs EXCEPT ![k] =
                [NoObs EXCEPT
                   !.joined = InFlight(refreshPromise[Proc(k)]),
                   !.staleAtCall =
                      ~isTokenValid(Reloaded(memoryCache[Proc(k)]).credentials, now)]]
    /\ UNCHANGED <<flowVars, appVars>>
    /\ UNCHANGED <<now, file, lock, issued, memoryCache, credentials,
                   refreshPromise, pending, attempt, outcome>>

\* mutant: the refresh-token precondition is not checked
HasRefreshToken_Unchecked(creds) == TRUE

\* the precondition of a refresh: the client's record carries a refresh_token
HasRefreshToken(creds) == creds.refresh_token # 0

\* Step 3: the cached record is returned as it is
ServeFromCache(force, cache, t) ==
    ~force /\ isTokenValid(cache.credentials, t)

\* Steps 2-4 up to the start of the refresh: the stat has returned.
CheckAndDecide(k) ==
    LET p == Proc(k)
        cache == Reloaded(memoryCache[p])
        how == cache # memoryCache[p] /\ isTokenValid(memoryCache[p].credentials, now)
    IN
    /\ pc[k] = "stat"
    /\ memoryCache' = [memoryCache EXCEPT ![p] = cache]
    /\ IF ServeFromCache(forceRefresh[k], cache, now)
       THEN /\ pc' = [pc EXCEPT ![k] = "done"]
            /\ outcome' = [outcome EXCEPT ![k] =
                 [via |-> "cache", creds |-> cache.credentials, err |-> "none"]]
            /\ obs' = [obs EXCEPT ![k].replacedValid = how]
            /\ UNCHANGED <<refreshPromise, attempt>>
       ELSE IF InFlight(refreshPromise[p])
       THEN \* a refresh started while the stat was under way: join it
            /\ pc' = [pc EXCEPT ![k] = "awaitShared"]
            /\ obs' = [obs EXCEPT ![k].joined = TRUE, ![k].replacedValid = how]
            /\ UNCHANGED <<outcome, refreshPromise, attempt>>
       ELSE IF ~HasRefreshToken(credentials[p])
       THEN /\ pc' = [pc EXCEPT ![k] = "done"]
            /\ outcome' = [outcome EXCEPT ![k] =
                 [via |-> "error", creds |-> NoCreds, err |-> "NO_REFRESH_TOKEN"]]
            /\ obs' = [obs EXCEPT ![k].replacedValid = how]
            /\ UNCHANGED <<refreshPromise, attempt>>
       ELSE /\ pc' = [pc EXCEPT ![k] = "acquire"]
            /\ refreshPromise' = [refreshPromise EXCEPT ![p] = k[2]]
            /\ attempt' = [attempt EXCEPT ![k] = 0]
            /\ obs' = [obs EXCEPT ![k].replacedValid = how]
            /\ UNCHANGED outcome
    /\ UNCHANGED <<flowVars, appVars>>
    /\ UNCHANGED <<now, file, lock, issued, credentials, pending, forceRefresh>>

\* ------------------------------------------------------------- lock marker
\* mutant: no marker is ever taken for stale
IsStale_Never(l, t) == FALSE

\* the marker is older than the stale threshold
IsStale(l, t) == t - l.mtime > LOCK_TIMEOUT_MS

\* mutant: one attempt too many
AttemptsExhausted_OffByOne(n) == n > MaxAttempts

\* a call has used up its attempts
AttemptsExhausted(n) == n >= MaxAttempts

LockTimeout == [via |-> "error", creds |-> NoCreds, err |-> "LOCK_TIMEOUT"]

\* acquireLock, one attempt: create the marker exclusively; when it exists,
\* look at its age: a stale one is to be deleted, otherwise wait
\* attemptInterval and try again, until the attempts are used up.
AcquireLock(k) ==
    LET p == Proc(k) IN
    /\ pc[k] = "acquire"
    /\ IF ~lock.exists
       THEN /\ lock' = [exists |-> TRUE, mtime |-> now, owner |-> p]
            /\ pc' = [pc EXCEPT ![k] = "recheck"]
            /\ obs' = [obs EXCEPT ![k].locked = TRUE]
            /\ UNCHANGED <<now, attempt, refreshPromise, pending, outcome>>
       ELSE IF IsStale(lock, now)
       THEN /\ pc' = [pc EXCEPT ![k] = "reclaim"]
            /\ obs' = [obs EXCEPT ![k].sawStale = TRUE]
            /\ UNCHANGED <<now, lock, attempt, refreshPromise, pending, outcome>>
       ELSE IF AttemptsExhausted(attempt[k] + 1)
       THEN /\ Settle(p, k, LockTimeout)
            /\ UNCHANGED <<now, lock, obs>>
       ELSE /\ now + AttemptInterval <= MaxClock
            /\ now' = now + AttemptInterval
            /\ attempt' = [attempt EXCEPT ![k] = @ + 1]
            /\ UNCHANGED <<lock, pc, obs, refreshPromise, pending, outcome>>
    /\ UNCHANGED <<flowVars, appVars>>
    /\ UNCHANGED <<file, issued, memoryCache, credentials, forceRefresh>>

\* acquireLock, the stale branch: the marker found at the path is deleted
\* and the next attempt follows at once.
ReclaimStaleLock(k) ==
    LET p == Proc(k) IN
    /\ pc[k] = "reclaim"
    /\ lock' = NoLock
    /\ IF AttemptsExhausted(attempt[k] + 1)
       THEN Settle(p, k, LockTimeout)
       ELSE /\ pc' = [pc EXCEPT ![k] = "acquire"]
            /\ attempt' = [attempt EXCEPT ![k] = @ + 1]
            /\ UNCHANGED <<refreshPromise, pending, outcome>>
    /\ UNCHANGED <<flowVars, appVars>>
    /\ UNCHANGED <<now, file, issued, memoryCache, credentials, forceRefresh, obs>>

\* ------------------------------------------------------ refreshAccessToken
\* what the token endpoint may answer to a refresh request
Responses == {"ok", "ok_keep", "ok_no_token", "error_body",
              "http400", "http500", "network"}

\* the body of a success response; n numbers the token set
ResponseData(resp, n) ==
    [access_token |-> IF resp = "ok_no_token" THEN 0 ELSE 10 + n,
     refresh_token |-> IF resp = "ok" THEN 20 + n ELSE 0,
     expires_in |-> EXPIRES_IN]

\* mutant: the expiry is taken in seconds
TokensOf_Seconds(data, old, t) ==
    Creds(data.access_token,
          IF data.refresh_token # 0 THEN data.refresh_token ELSE old.refresh_token,
          t + data.expires_in)

\* the DeltaCredentials built from a refresh response at time t; an absent
\* refresh_token in the response keeps the one in use
TokensOf(data, old, t) ==
    Creds(data.access_token,
          IF data.refresh_token # 0 THEN data.refresh_token ELSE old.refresh_token,
          t + data.expires_in * 1000)

\* mutant: the HTTP status and the error body of the answer are not looked at
RefreshAccessToken_IgnoreStatus(resp, old, t, n) ==
    [threw |-> FALSE, transport |-> FALSE, data |-> ResponseData(resp, n),
     client |-> TokensOf(ResponseData(resp, n), old, t), cleared |-> FALSE]

\* mutant: a failure of the transport is reported like an answer of the server
RefreshAccessToken_NoTransport(resp, old, t, n) ==
    IF resp \in {"network", "http500", "error_body"}
    THEN [threw |-> TRUE, transport |-> FALSE, data |-> ResponseData(resp, n),
          client |-> old, cleared |-> FALSE]
    ELSE IF resp = "http400"
    THEN [threw |-> TRUE, transport |-> FALSE, data |-> ResponseData(resp, n),
          client |-> old, cleared |-> TRUE]
    ELSE [threw |-> FALSE, transport |-> FALSE, data |-> ResponseData(resp, n),
          client |-> TokensOf(ResponseData(resp, n), old, t), cleared |-> FALSE]

\* DeltaOAuth2Client.refreshAccessToken once the answer resp has arrived at
\* time t: what it returns or throws, the client's credentials afterwards,
\* and whether it called clearDeltaCredentials (HTTP 400).
RefreshAccessToken(resp, old, t, n) ==
    IF resp = "network"
    THEN [threw |-> TRUE, transport |-> TRUE, data |-> ResponseData(resp, n),
          client |-> old, cleared |-> FALSE]
    ELSE IF resp = "http400"
    THEN [threw |-> TRUE, transport |-> FALSE, data |-> ResponseData(resp, n),
          client |-> old, cleared |-> TRUE]
    ELSE IF resp \in {"http500", "error_body"}
    THEN [threw |-> TRUE, transport |-> FALSE, data |-> ResponseData(resp, n),
          client |-> old, cleared |-> FALSE]
    ELSE [threw |-> FALSE, transport |-> FALSE, data |-> ResponseData(resp, n),
          client |-> TokensOf(ResponseData(resp, n), old, t), cleared |-> FALSE]

\* mutant: the credential file is left where it is
ClearDeltaCredentials_Never(f, unlinked) == f

\* clearDeltaCredentials: the credential file f is unlinked; a file that is
\* not there is taken for cleared, and an unlink that fails for another
\* reason is logged and ignored, so the file stays
ClearDeltaCredentials(f, unlinked) == IF unlinked THEN NoFile ELSE f

\* ------------------------------------------- performTokenRefresh, locked
RefreshFailed == [via |-> "error", creds |-> NoCreds, err |-> "REFRESH_FAILED"]
NetworkError == [via |-> "error", creds |-> NoCreds, err |-> "NETWORK_ERROR"]

\* The lock is held: re-check freshness (steps 2 and 3 once more); when
\* another process has refreshed meanwhile its record is adopted, otherwise
\* the refresh request goes out.
RecheckAfterLock(k) ==
    LET p == Proc(k)
        cache == Reloaded(memoryCache[p])
    IN
    /\ pc[k] = "recheck"
    /\ memoryCache' = [memoryCache EXCEPT ![p] = cache]
    /\ IF ServeFromCache(forceRefresh[k], cache, now)
       THEN /\ pending' = [pending EXCEPT ![p] =
                 [via |-> "adopt", creds |-> cache.credentials, err |-> "none"]]
            /\ pc' = [pc EXCEPT ![k] = "release"]
            /\ UNCHANGED obs
       ELSE IF ~HasRefreshToken(credentials[p])
       THEN \* refreshAccessToken throws before any request is sent
            /\ pending' = [pending EXCEPT ![p] = RefreshFailed]
            /\ pc' = [pc EXCEPT ![k] = "release"]
            /\ UNCHANGED obs
       ELSE /\ pc' = [pc EXCEPT ![k] = "refreshing"]
            /\ obs' = [obs EXCEPT ![k].net = @ + 1]
            /\ UNCHANGED pending
    /\ UNCHANGED <<flowVars, appVars>>
    /\ UNCHANGED <<now, file, lock, issued, credentials, refreshPromise,
                   forceRefresh, attempt, outcome>>

\* The answer to the refresh request arrives after dt on the network;
\* unlinked tells whether an unlink of the credential file would succeed.
RefreshResponds(k, resp, dt, unlinked) ==
    LET p == Proc(k)
        r == RefreshAccessToken(resp, credentials[p], now + dt, issued + 1)
    IN
    /\ pc[k] = "refreshing"
    /\ now + dt <= MaxClock
    /\ now' = now + dt
    /\ issued' = IF resp \in {"ok", "ok_keep", "ok_no_token"} THEN issued + 1 ELSE issued
    /\ credentials' = [credentials EXCEPT ![p] = r.client]
    /\ file' = IF r.cleared THEN ClearDeltaCredentials(file, unlinked) ELSE file
    /\ IF r.threw
       THEN /\ pending' = [pending EXCEPT ![p] =
                 IF r.transport THEN NetworkError ELSE RefreshFailed]
            /\ pc' = [pc EXCEPT ![k] = "release"]
       ELSE IF r.data.access_token = 0
       THEN /\ pending' = [pending EXCEPT ![p] = RefreshFailed]
            /\ pc' = [pc EXCEPT ![k] = "release"]
       ELSE /\ pending' = [pending EXCEPT ![p] =
                 [via |-> "refresh",
                  creds |-> TokensOf(r.data, credentials[p], now + dt),
                  err |-> "none"]]
            /\ pc' = [pc EXCEPT ![k] = "persist"]
    /\ obs' = [obs EXCEPT ![k].resp = resp]
    /\ UNCHANGED <<flowVars, appVars>>
    /\ UNCHANGED <<lock, memoryCache, refreshPromise, forceRefresh, attempt,
                   outcome>>

\* The new record is written to the credential file and becomes the cached
\* record and the client's record.
SaveCredentials(k) ==
    LET p == Proc(k) IN
    /\ pc[k] = "persist"
    /\ file' = [exists |-> TRUE, creds |-> pending[p].creds, mtime |-> now]
    /\ memoryCache' = [memoryCache EXCEPT ![p] =
                         [credentials |-> pending[p].creds, fileModTime |-> now]]
    /\ credentials' = [credentials EXCEPT ![p] = pending[p].creds]
    /\ pc' = [pc EXCEPT ![k] = "release"]
    /\ obs' = [obs EXCEPT ![k].wrote = TRUE]
    /\ UNCHANGED <<flowVars, appVars>>
    /\ UNCHANGED <<now, lock, issued, refreshPromise, pending, forceRefresh,
                   attempt, outcome>>

\* a release that leaves the marker where it is
ReleaseLock_KeepMarker(k) ==
    LET p == Proc(k) IN
    /\ pc[k] = "release"
    /\ lock' = lock
    /\ Settle(p, k, pending[p])
    /\ UNCHANGED <<flowVars, appVars>>
    /\ UNCHANGED <<now, file, issued, memoryCache, credentials, forceRefresh, obs>>

\* releaseLock: best-effort delete of the marker at the path; then the
\* refresh in flight settles.
ReleaseLock(k) ==
    LET p == Proc(k) IN
    /\ pc[k] = "release"
    /\ lock' = NoLock
    /\ Settle(p, k, pending[p])
    /\ UNCHANGED <<flowVars, appVars>>
    /\ UNCHANGED <<now, file, issued, memoryCache, credentials, forceRefresh, obs>>

\* time passes while nothing happens
Tick ==
    /\ now + IdleStep <= MaxClock
    /\ now' = now + IdleStep
    /\ UNCHANGED <<flowVars, appVars>>
    /\ UNCHANGED <<file, lock, issued, memoryCache, credentials, refreshPromise,
                   pending, pc, forceRefresh, attempt, outcome, obs>>

Next ==
    \/ \E k \in K, force \in BOOLEAN : GetValidCredentials(k, force)
    \/ \E k \in K : CheckAndDecide(k)
    \/ \E k \in K : AcquireLock(k)
    \/ \E k \in K : ReclaimStaleLock(k)
    \/ \E k \in K : RecheckAfterLock(k)
    \/ \E k \in K, resp \in Responses, dt \in NetDelays, unlinked \in BOOLEAN :
          RefreshResponds(k, resp, dt, unlinked)
    \/ \E k \in K : SaveCredentials(k)
    \/ \E k \in K : ReleaseLock(k)
    \/ Tick

\* concurrent callers of one process
SpecOneProcess == InitOneProcess /\ [][Next]_vars

\* concurrent processes that share the credential file and the lock marker
SpecProcesses == InitProcesses /\ [][Next]_vars

\* the exit hook of process p: the marker at the lock path is unlinked
\* synchronously, whoever created it, and the process is gone with its calls
Cleanup(p) ==
    /\ \E k \in K : Proc(k) = p /\ pc[k] # "off"
    /\ lock' = NoLock
    /\ pc' = [k \in K |-> IF Proc(k) = p THEN "off" ELSE pc[k]]
    /\ refreshPromise' = [refreshPromise EXCEPT ![p] = 0]
    /\ pending' = [pending EXCEPT ![p] = NoOutcome]
    /\ memoryCache' = [memoryCache EXCEPT ![p] = [credentials |-> NoCreds, fileModTime |-> 0]]
    /\ credentials' = [credentials EXCEPT ![p] = NoCreds]
    /\ forceRefresh' = [k \in K |-> IF Proc(k) = p THEN FALSE ELSE forceRefresh[k]]
    /\ attempt' = [k \in K |-> IF Proc(k) = p THEN 0 ELSE attempt[k]]
    /\ outcome' = [k \in K |-> IF Proc(k) = p THEN NoOutcome ELSE outcome[k]]
    /\ obs' = [k \in K |-> IF Proc(k) = p THEN NoObs ELSE obs[k]]
    /\ UNCHANGED <<flowVars, appVars>>
    /\ UNCHANGED <<now, file, issued>>

NextWithExit ==
    \/ Next
    \/ \E p \in Procs : Cleanup(p)

\* concurrent processes, any of which may exit at any time
SpecProcessExit == InitProcesses /\ [][NextWithExit]_vars

\* the stat of the credential file fails with something other than "no such
\* file": the call is rejected with a FILE_ERROR
StatFails(k) ==
    /\ pc[k] = "stat"
    /\ pc' = [pc EXCEPT ![k] = "done"]
    /\ outcome' = [outcome EXCEPT ![k] =
                     [via |-> "error", creds |-> NoCreds, err |-> "FILE_ERROR"]]
    /\ UNCHANGED <<flowVars, appVars>>
    /\ UNCHANGED <<now, file, lock, issued, memoryCache, credentials,
                   refreshPromise, pending, forceRefresh, attempt, obs>>

\* clearDeltaCredentials is called from elsewhere (a sign-out): the
\* credential file is gone
CredentialsCleared(unlinked) ==
    /\ file.exists
    /\ file' = ClearDeltaCredentials(file, unlinked)
    /\ file' # file
    /\ UNCHANGED <<flowVars, appVars>>
    /\ UNCHANGED <<now, lock, issued, memoryCache, credentials, refreshPromise,
                   pending, pc, forceRefresh, attempt, outcome, obs>>

NextWithFileFaults ==
    \/ Next
    \/ \E k \in K : StatFails(k)
    \/ \E unlinked \in BOOLEAN : CredentialsCleared(unlinked)

\* one process whose credential file may disappear or be unreadable
SpecFileFaults == InitOneProcess /\ [][NextWithFileFaults]_vars

TypeOK ==
    /\ now \in StartTime..MaxClock
    /\ pc \in [K -> {"off", "idle", "stat", "awaitShared", "acquire", "reclaim",
                     "recheck", "refreshing", "persist", "release", "done"}]
    /\ refreshPromise \in [Procs -> {0} \cup Callers]

\* ============================================================ device flow
\* the process that signs in, and its call of getValidCredentials afterwards
FlowCall == <<1, 1>>
FlowProc == Proc(FlowCall)

DefaultPollInterval == 2000
MaxPollInterval == 10000
checkInterval == 100

\* expires_in of the device authorization, in seconds
DeviceExpiresIn == {0, 7}
ShortExpiresIn == {0, 3}

\* what the token endpoint can answer to a poll: status 0 stands for a fetch
\* that rejects; a 200 answer carries token data (complete, without
\* expires_in, or the access_token alone), a pending object, an error object
\* or an empty object; any other answer carries an OAuth error code or a body
\* that is not JSON
TokenBodies == {"token", "token_noexpiry", "token_bare"}
PollResponses ==
    {[status |-> 0, body |-> "none"]}
    \cup {[status |-> 200, body |-> b] :
             b \in TokenBodies \cup {"pending", "error", "empty"}}
    \cup {[status |-> st, body |-> b] :
             st \in {400, 401, 429, 500},
             b \in {"authorization_pending", "slow_down", "access_denied", "not_json"}}

Pending(slow) == [kind |-> "pending", slowDown |-> slow, status |-> 0, body |-> "none"]
Thrown(st) == [kind |-> "throw", slowDown |-> FALSE, status |-> st, body |-> "none"]
Returned(b) == [kind |-> "data", slowDown |-> FALSE, status |-> 0, body |-> b]

\* pollDeviceToken. For an answer that is not ok the body is read as JSON
\* inside a try block whose catch reads the body again as text: the error
\* built with the HTTP status is thrown inside that try block, and so is the
\* parse error of a body that is not JSON, and both land in the catch. The
\* second read gives the text only when the Response lets its body be read
\* twice (bodyReadable); a Response of the Fetch standard rejects it with a
\* TypeError, which carries no status and replaces the error being built.
PollDeviceToken(resp, bodyReadable) ==
    IF resp.status = 0 THEN Thrown(0)
    ELSE IF resp.status # 200
    THEN IF resp.body # "not_json" /\ resp.status = 400
            /\ resp.body = "authorization_pending"
         THEN Pending(FALSE)
         ELSE IF resp.body # "not_json" /\ resp.status = 429
                 /\ resp.body = "slow_down"
         THEN Pending(TRUE)
         ELSE IF bodyReadable THEN Thrown(resp.status) ELSE Thrown(0)
    ELSE Returned(resp.body)

isDeviceTokenSuccess(o) == o.kind = "data" /\ o.body \in TokenBodies
isDeviceTokenPending(o) ==
    o.kind = "pending" \/ (o.kind = "data" /\ o.body = "pending")
isErrorResponse(o) == o.kind = "data" /\ o.body = "error"

\* the token data of the n-th poll; 0 stands for an absent field
DeviceTokenData(body, n) ==
    [access_token |-> 30 + n,
     refresh_token |-> IF body \in {"token", "token_noexpiry"} THEN 40 + n ELSE 0,
     expires_in |-> IF body = "token" THEN EXPIRES_IN ELSE 0]

\* mutant: expires_in is taken for milliseconds
CredentialsOf_Millis(data, t) ==
    Creds(data.access_token, data.refresh_token,
          IF data.expires_in # 0 THEN t + data.expires_in ELSE 0)

\* the DeltaCredentials built from token data at time t
CredentialsOf(data, t) ==
    Creds(data.access_token, data.refresh_token,
          IF data.expires_in # 0 THEN t + data.expires_in * 1000 ELSE 0)

\* mutant: the remainder of the division is dropped
MaxAttemptsOf_Floor(expires_in) == expires_in \div (DefaultPollInterval \div 1000)

\* Math.ceil(expires_in / (pollInterval / 1000)) with pollInterval = 2000
MaxAttemptsOf(expires_in) ==
    (expires_in + (DefaultPollInterval \div 1000) - 1) \div (DefaultPollInterval \div 1000)

\* mutant: the interval is doubled without a cap
SlowedDown_Uncapped(interval) == interval * 2

\* Math.min(pollInterval * 1.5, 10000)
SlowedDown(interval) ==
    IF (interval * 3) \div 2 < MaxPollInterval
    THEN (interval * 3) \div 2 ELSE MaxPollInterval

Event(status, message) == [status |-> status, message |-> message]
Emit(ev, e) == [count |-> ev.count + 1, last |-> e]

\* the class of a poll outcome in the history of the flow
ClassOf(o) ==
    IF isDeviceTokenSuccess(o) THEN "T"
    ELSE IF isDeviceTokenPending(o) THEN (IF o.slowDown THEN "S" ELSE "P")
    ELSE "E"

Answered(ob, o) ==
    IF Len(ob.resps) < 3 THEN [ob EXCEPT !.resps = Append(@, ClassOf(o))] ELSE ob

Waited(ob, interval) ==
    IF Len(ob.waits) < 2 THEN [ob EXCEPT !.waits = Append(@, interval)] ELSE ob

\* the flow returns with reason
Return(reason, ev, ob) ==
    /\ fpc' = "done"
    /\ fResult' = reason
    /\ events' = ev
    /\ fobs' = ob
    /\ UNCHANGED fAttempt

\* mutant: the flag is not looked at where the loop starts over
CancelSeen_Never(cancelled) == FALSE

\* the test of isCancelled at the top of the loop body
CancelSeen(cancelled) == cancelled

\* the for loop reaches iteration a of max: past the last one the flow times
\* out, a cancelled flow returns, any other sends the next poll
NextIteration(a, max, ev, ob) ==
    IF ~(a < max)
    THEN /\ Return("timeout", Emit(ev, Event("timeout", "timeout")), ob)
    ELSE IF CancelSeen(isCancelled)
    THEN /\ Return("cancelled", Emit(ev, Event("error", "cancelled")), ob)
    ELSE /\ fpc' = "polling"
         /\ fAttempt' = a
         /\ events' = ev
         /\ fobs' = [ob EXCEPT !.polls = @ + 1]
         /\ UNCHANGED fResult

\* mutant: every error that carries an HTTP status ends the flow
Is401_AnyStatus(err) == err.status # 0

\* errorMessage.includes('401') || statusCode === 401: the message of an
\* error holds its status exactly when the error carries one
Is401(err) == err.status = 401

Is429(err) == err.status = 429

\* the catch block of the loop body
Catch(err, ob) ==
    IF Is401(err)
    THEN Return("error", Emit(events, Event("error", "expired")), ob)
    ELSE IF Is429(err)
    THEN Return("rate_limit", Emit(events, Event("rate_limit", "rate_limit")), ob)
    ELSE IF isCancelled
    THEN Return("cancelled", Emit(events, Event("error", "poll_error")), ob)
    ELSE /\ fpc' = "errwait"
         /\ events' = Emit(events, Event("error", "poll_error"))
         /\ fobs' = ob
         /\ UNCHANGED <<fAttempt, fResult>>

managerVars == <<lock, issued, memoryCache, refreshPromise, pending, pc,
                 forceRefresh, attempt, outcome, obs>>

\* authWithDeltaDeviceFlow is called: the cancel handler is registered and
\* the device authorization is requested
AuthWithDeltaDeviceFlow ==
    /\ fpc = "idle"
    /\ fpc' = "start"
    /\ fobs' = [fobs EXCEPT !.file0 = file, !.creds0 = credentials[FlowProc]]
    /\ UNCHANGED <<now, file, credentials, managerVars, appVars, fAttempt, fMax,
                   pollInterval, isCancelled, elapsedTime, fResult, events>>

\* requestDeviceAuthorization settles: a failure goes to the outer catch,
\* which returns; a success announces the polling and enters the loop
DeviceAuthorizationResponds(ok, expires_in) ==
    /\ fpc = "start"
    /\ IF ~ok
       THEN /\ Return("error", events, fobs)
            /\ UNCHANGED <<fMax, pollInterval>>
       ELSE /\ pollInterval' = DefaultPollInterval
            /\ fMax' = MaxAttemptsOf(expires_in)
            /\ NextIteration(0, MaxAttemptsOf(expires_in),
                             Emit(events, Event("polling", "waiting")),
                             [fobs EXCEPT !.expires_in = expires_in])
    /\ UNCHANGED <<now, file, credentials, managerVars, appVars, isCancelled, elapsedTime>>

\* the poll settles
PollResponds(resp, bodyReadable) ==
    LET o == PollDeviceToken(resp, bodyReadable)
        ob == Answered(fobs, o)
    IN
    /\ fpc = "polling"
    /\ elapsedTime' = 0
    /\ IF isDeviceTokenSuccess(o)
       THEN LET c == CredentialsOf(DeviceTokenData(o.body, fobs.polls), now) IN
            /\ credentials' = [credentials EXCEPT ![FlowProc] = c]
            /\ fpc' = "saving"
            /\ fobs' = [ob EXCEPT !.built = c]
            /\ UNCHANGED <<pollInterval, fAttempt, fResult, events>>
       ELSE IF isDeviceTokenPending(o)
       THEN LET interval == IF o.slowDown THEN SlowedDown(pollInterval)
                            ELSE DefaultPollInterval IN
            /\ pollInterval' = interval
            /\ events' = Emit(events, Event("polling", "attempt"))
            /\ fpc' = "waiting"
            /\ fobs' = Waited(ob, interval)
            /\ UNCHANGED <<credentials, fAttempt, fResult>>
       ELSE IF o.kind = "throw" \/ isErrorResponse(o)
       THEN /\ Catch(o, ob)
            /\ UNCHANGED <<credentials, pollInterval>>
       ELSE /\ NextIteration(fAttempt + 1, fMax, events, ob)
            /\ UNCHANGED <<credentials, pollInterval>>
    /\ UNCHANGED <<now, file, managerVars, appVars, fMax, isCancelled>>

\* cacheDeltaCredentials settles: the record is in the file, or the write
\* failed and its error lands in the catch block of the loop body
CacheDeltaCredentials(ok) ==
    /\ fpc = "saving"
    /\ IF ok
       THEN /\ file' = [exists |-> TRUE, creds |-> fobs.built, mtime |-> now]
            /\ Return("success", Emit(events, Event("success", "success")),
                      [fobs EXCEPT !.wrote = TRUE])
       ELSE /\ Catch(Thrown(0), fobs)
            /\ UNCHANGED file
    /\ UNCHANGED <<now, credentials, managerVars, appVars, fMax, pollInterval,
                   isCancelled, elapsedTime>>

\* the history of a flow that spent one more tick waiting
Ticked(ob) ==
    IF isCancelled /\ ob.afterCancel < 2
    THEN [ob EXCEPT !.afterCancel = @ + 1] ELSE ob

\* a tick of the wait after a pending answer
WaitTick ==
    /\ fpc = "waiting"
    /\ elapsedTime' = elapsedTime + checkInterval
    /\ IF isCancelled
       THEN /\ now' = now + elapsedTime'
            /\ Return("cancelled", Emit(events, Event("error", "cancelled")),
                      Ticked(fobs))
       ELSE IF elapsedTime' >= pollInterval
       THEN /\ now' = now + elapsedTime'
            /\ NextIteration(fAttempt + 1, fMax, events, fobs)
       ELSE UNCHANGED <<now, fpc, fAttempt, fResult, events, fobs>>
    /\ UNCHANGED <<file, credentials, managerVars, appVars, fMax, pollInterval, isCancelled>>

\* time passes in the wait after a polling error, a plain timer of
\* pollInterval
ErrorWaitPasses ==
    /\ fpc = "errwait"
    /\ elapsedTime' = elapsedTime + checkInterval
    /\ IF elapsedTime' >= pollInterval
       THEN /\ now' = now + pollInterval
            /\ NextIteration(fAttempt + 1, fMax, events, Ticked(fobs))
       ELSE /\ fobs' = Ticked(fobs)
            /\ UNCHANGED <<now, fpc, fAttempt, fResult, events>>
    /\ UNCHANGED <<file, credentials, managerVars, appVars, fMax, pollInterval, isCancelled>>

\* AuthCancel is published while the handler of the flow is registered
PublishCancel ==
    /\ fpc \in {"start", "polling", "saving", "waiting", "errwait"}
    /\ ~isCancelled
    /\ isCancelled' = TRUE
    /\ fobs' = [fobs EXCEPT !.cancelIn = fpc, !.cancelPolls = fobs.polls]
    /\ UNCHANGED <<now, file, credentials, managerVars, appVars, fpc, fAttempt, fMax,
                   pollInterval, elapsedTime, fResult, events>>

InitDeviceFlow ==
    /\ InitWith({FlowCall})
    /\ file.creds = ExpiredCredentials
    /\ lock = NoLock
    /\ memoryCache[FlowProc].fileModTime = 0
    /\ FlowAt("idle")
    /\ AppOff

NextDeviceFlow ==
    \/ AuthWithDeltaDeviceFlow
    \/ \E ok \in BOOLEAN, e \in DeviceExpiresIn : DeviceAuthorizationResponds(ok, e)
    \/ \E resp \in PollResponses, b \in BOOLEAN : PollResponds(resp, b)
    \/ \E ok \in BOOLEAN : CacheDeltaCredentials(ok)
    \/ WaitTick
    \/ ErrorWaitPasses
    \/ PublishCancel

\* a sign-in by the device flow
SpecDeviceFlow == InitDeviceFlow /\ [][NextDeviceFlow]_vars

\* the same, where every request is answered, every write settles and
\* every timer fires
SpecDeviceFlowFair == SpecDeviceFlow /\ WF_vars(NextDeviceFlow)

InitLogin == InitWith({FlowCall}) /\ FlowAt("idle") /\ AppOff

\* getDeltaOAuthClient hands the client out only after a successful flow
LoggedIn == fResult = "success"

NextLogin ==
    \/ AuthWithDeltaDeviceFlow
    \/ \E ok \in BOOLEAN, e \in ShortExpiresIn : DeviceAuthorizationResponds(ok, e)
    \/ \E resp \in PollResponses, b \in BOOLEAN : PollResponds(resp, b)
    \/ \E ok \in BOOLEAN : CacheDeltaCredentials(ok)
    \/ WaitTick
    \/ ErrorWaitPasses
    \/ PublishCancel
    \/ \E force \in BOOLEAN : LoggedIn /\ GetValidCredentials(FlowCall, force)
    \/ LoggedIn /\ CheckAndDecide(FlowCall)
    \/ LoggedIn /\ AcquireLock(FlowCall)
    \/ LoggedIn /\ ReclaimStaleLock(FlowCall)
    \/ LoggedIn /\ RecheckAfterLock(FlowCall)
    \/ \E resp \in Responses, dt \in NetDelays, unlinked \in BOOLEAN :
          LoggedIn /\ RefreshResponds(FlowCall, resp, dt, unlinked)
    \/ LoggedIn /\ SaveCredentials(FlowCall)
    \/ LoggedIn /\ ReleaseLock(FlowCall)
    \/ LoggedIn /\ Tick

\* a sign-in by the device flow and, once the client is handed out, the
\* calls of getValidCredentials that follow
SpecLogin == InitLogin /\ [][NextLogin]_vars

\* ------------------------------------------------------ getDeltaOAuthClient
\* the call of getValidCredentials made by getDeltaOAuthClient and the one
\* made by getAccessToken inside loadCachedDeltaCredentials
ValidateCall == <<1, 1>>
TokenCall == <<1, 2>>

coreVars == <<now, file, lock, issued, memoryCache, refreshPromise, pending,
              pc, forceRefresh, attempt, outcome, obs>>

\* mutant: after a rejection the client's own token is returned as it is
AccessTokenOf_Unchecked(o, creds, t) ==
    IF o.err = "none" THEN o.creds.access_token ELSE creds.access_token

\* DeltaOAuth2Client.getAccessToken once getValidCredentials has settled
\* with o: the token of the record the manager gave, or after a rejection
\* the client's own token if isTokenValid, or none
AccessTokenOf(o, creds, t) ==
    IF o.err = "none" THEN o.creds.access_token
    ELSE IF creds.access_token # 0 /\ isTokenValid(creds, t)
    THEN creds.access_token
    ELSE 0

\* mutant: the client is handed out whatever the flow returned
SettledAs_Resolved(reason) == "resolved"

\* how getDeltaOAuthClient settles when the flow returned with reason
SettledAs(reason) == IF reason = "success" THEN "resolved" ELSE "rejected"

\* getDeltaOAuthClient is called: a client is made and getValidCredentials
\* is awaited
GetDeltaOAuthClient ==
    /\ client.pc = "idle"
    /\ client' = [client EXCEPT !.pc = "validating"]
    /\ UNCHANGED <<coreVars, loggerVars, keysVars, ui, credentials, flowVars>>

\* getValidCredentials settled: the client gets the record and is returned,
\* or the catch block goes on to the cached credentials
ValidCredentialsSettled ==
    /\ client.pc = "validating"
    /\ pc[ValidateCall] = "done"
    /\ IF outcome[ValidateCall].err = "none"
       THEN /\ credentials' = [credentials EXCEPT
                                 ![Proc(ValidateCall)] = outcome[ValidateCall].creds]
            /\ client' = [client EXCEPT !.pc = "done", !.result = "resolved"]
       ELSE /\ client' = [client EXCEPT !.pc = "reading"]
            /\ UNCHANGED credentials
    /\ UNCHANGED <<coreVars, loggerVars, keysVars, ui, flowVars>>

\* loadCachedDeltaCredentials reads the file: a record that can be read and
\* parsed is set on the client and getAccessToken is awaited; anything
\* thrown makes it return false
LoadCachedDeltaCredentials(readable) ==
    /\ client.pc = "reading"
    /\ IF file.exists /\ readable
       THEN /\ credentials' = [credentials EXCEPT ![Proc(TokenCall)] = file.creds]
            /\ client' = [client EXCEPT !.pc = "token"]
       ELSE /\ client' = [client EXCEPT !.pc = "flow", !.loaded = FALSE]
            /\ UNCHANGED credentials
    /\ UNCHANGED <<coreVars, loggerVars, keysVars, ui, flowVars>>

\* getAccessToken returns inside loadCachedDeltaCredentials, which returns
\* whether there is a token
AccessTokenReturned ==
    LET token == AccessTokenOf(outcome[TokenCall],
                               credentials[Proc(TokenCall)], now) IN
    /\ client.pc = "token"
    /\ pc[TokenCall] = "done"
    /\ client' = [client EXCEPT !.pc = "flow", !.token = token,
                                !.loaded = (token # 0)]
    /\ UNCHANGED <<coreVars, loggerVars, keysVars, ui, credentials, flowVars>>

\* authWithDeltaDeviceFlow is called, in the branch with or in the branch
\* without cached credentials
RunDeviceFlow ==
    /\ client.pc = "flow"
    /\ client' = [client EXCEPT !.pc = "inflow", !.flows = @ + 1]
    /\ UNCHANGED <<coreVars, loggerVars, keysVars, ui, credentials, flowVars>>

\* the flow returned: the client is returned after a success, an error is
\* thrown otherwise; without cached credentials a timeout is announced
\* once more
DeviceFlowReturned ==
    /\ client.pc = "inflow"
    /\ fpc = "done"
    /\ client' = [client EXCEPT !.pc = "done", !.result = SettledAs(fResult)]
    /\ events' = IF ~client.loaded /\ fResult = "timeout"
                 THEN Emit(events, Event("timeout", "timed_out"))
                 ELSE events
    /\ UNCHANGED <<coreVars, loggerVars, keysVars, ui, credentials, fpc, fAttempt, fMax, pollInterval,
                   isCancelled, elapsedTime, fResult, fobs>>

\* the calls of getValidCredentials that getDeltaOAuthClient is awaiting
Awaited ==
    IF client.pc = "validating" THEN {ValidateCall}
    ELSE IF client.pc = "token" THEN {TokenCall}
    ELSE {}

InitClient ==
    /\ InitWith({ValidateCall, TokenCall})
    /\ FlowAt("idle")
    /\ client = [NoClient EXCEPT !.pc = "idle"]
    /\ logger = NoLogger /\ flights = {} /\ lobs = NoLoggerObs
    /\ keypress = NoKeypress /\ stdin = <<>> /\ kobs = NoKeysObs
    /\ ui = NoUi

NextClient ==
    \/ GetDeltaOAuthClient
    \/ ValidCredentialsSettled
    \/ \E readable \in BOOLEAN : LoadCachedDeltaCredentials(readable)
    \/ AccessTokenReturned
    \/ RunDeviceFlow
    \/ DeviceFlowReturned
    \/ \E k \in Awaited : GetValidCredentials(k, FALSE)
    \/ \E k \in Awaited : CheckAndDecide(k)
    \/ \E k \in Awaited : AcquireLock(k)
    \/ \E k \in Awaited : ReclaimStaleLock(k)
    \/ \E k \in Awaited : RecheckAfterLock(k)
    \/ \E k \in Awaited, resp \in Responses, dt \in NetDelays, unlinked \in BOOLEAN :
          RefreshResponds(k, resp, dt, unlinked)
    \/ \E k \in Awaited : SaveCredentials(k)
    \/ \E k \in Awaited : ReleaseLock(k)
    \/ Awaited # {} /\ Tick
    \/ client.pc = "inflow" /\ AuthWithDeltaDeviceFlow
    \/ \E ok \in BOOLEAN, e \in ShortExpiresIn : DeviceAuthorizationResponds(ok, e)
    \/ \E resp \in PollResponses, b \in BOOLEAN : PollResponds(resp, b)
    \/ \E ok \in BOOLEAN : CacheDeltaCredentials(ok)
    \/ WaitTick
    \/ ErrorWaitPasses
    \/ PublishCancel

\* one call of getDeltaOAuthClient in one process
SpecClient == InitClient /\ [][NextClient]_vars

\* ----------------------------------------------------------- getAccessToken
\* records a client may have been given: one valid for an hour, one that is
\* valid for a moment, one without expiry_date, one without access_token
LocalRecords ==
    {NoCreds,
     Creds(9, 1, StartTime + 3600000),
     Creds(9, 1, StartTime + 9 * ClockStep),
     Creds(9, 1, 0),
     Creds(0, 1, StartTime + 3600000)}

\* DeltaOAuth2Client.setCredentials followed by a call of getAccessToken
SetCredentials(c) ==
    /\ client.pc = "set"
    /\ credentials' = [credentials EXCEPT ![Proc(TokenCall)] = c]
    /\ client' = [client EXCEPT !.pc = "token"]
    /\ UNCHANGED <<coreVars, loggerVars, keysVars, ui, flowVars>>

InitAccessToken ==
    /\ InitWith({TokenCall})
    /\ FlowAt("off")
    /\ client = [NoClient EXCEPT !.pc = "set"]
    /\ logger = NoLogger /\ flights = {} /\ lobs = NoLoggerObs
    /\ keypress = NoKeypress /\ stdin = <<>> /\ kobs = NoKeysObs
    /\ ui = NoUi

NextAccessToken ==
    \/ \E c \in LocalRecords : SetCredentials(c)
    \/ \E k \in Awaited : GetValidCredentials(k, FALSE)
    \/ \E k \in Awaited : CheckAndDecide(k)
    \/ \E k \in Awaited : AcquireLock(k)
    \/ \E k \in Awaited : ReclaimStaleLock(k)
    \/ \E k \in Awaited : RecheckAfterLock(k)
    \/ \E k \in Awaited, resp \in Responses, dt \in NetDelays, unlinked \in BOOLEAN :
          RefreshResponds(k, resp, dt, unlinked)
    \/ \E k \in Awaited : SaveCredentials(k)
    \/ \E k \in Awaited : ReleaseLock(k)
    \/ Awaited # {} /\ Tick
    \/ AccessTokenReturned

\* one call of getAccessToken on a client that holds some record
SpecAccessToken == InitAccessToken /\ [][NextAccessToken]_vars

\* -------------------------------------------------------------- DeltaLogger
\* the capacity of the event queue and the number of failed events kept for
\* a retry, scaled down from 1000 and 100
MAX_EVENTS == 3
MAX_RETRY_EVENTS == 2
\* events logged and calls of flushToRum made in one run
MaxLogged == 5
MaxFlushCalls == 3

Min(a, b) == IF a < b THEN a ELSE b

\* Array.prototype.slice(-n): the last n elements
LastN(q, n) == IF Len(q) <= n THEN q ELSE SubSeq(q, Len(q) - n + 1, Len(q))

Range(q) == {q[i] : i \in 1..Len(q)}

\* FixedDeque.push: throws when the deque is full
DequePush(q, e) ==
    IF Len(q) >= MAX_EVENTS
    THEN [threw |-> TRUE, items |-> q]
    ELSE [threw |-> FALSE, items |-> Append(q, e)]

\* FixedDeque.shift: removes the first element, if any
DequeShift(q) == IF q = <<>> THEN q ELSE Tail(q)

\* mutant: the queue is never taken to be full
AtCapacity_Never(q) == FALSE

\* wasAtCapacity
AtCapacity(q) == Len(q) >= MAX_EVENTS

\* the queue after enqueueLogEvent(e): the oldest event makes room in a
\* full queue; whatever push throws is caught
Enqueued(q, e) ==
    LET room == IF AtCapacity(q) THEN DequeShift(q) ELSE q IN
    DequePush(room, e)

\* requeueFailedEvents: the most recent MAX_RETRY_EVENTS of the failed
\* events, as many of them as there is room for, go back to the front
Requeued(q, eventsToSend) ==
    LET eventsToRetry == LastN(eventsToSend, MAX_RETRY_EVENTS)
        availableSpace == MAX_EVENTS - Len(q)
        numEventsToRequeue == Min(Len(eventsToRetry), availableSpace)
        all == LastN(eventsToRetry, numEventsToRequeue) \o q
    IN IF numEventsToRequeue = 0 THEN q
       ELSE IF Len(all) > MAX_EVENTS THEN SubSeq(all, 1, MAX_EVENTS)
       ELSE all

\* flushToRum up to its first await, for a logger lg and the flushes fl
\* under way: with a flush in progress it marks a pending flush and
\* returns; with nothing queued it returns; otherwise it takes the queue
\* and builds the payload
FlushBegun(lg, fl) ==
    IF lg.isFlushInProgress
    THEN [logger |-> [lg EXCEPT !.pendingFlush = TRUE], flights |-> fl, began |-> 0]
    ELSE IF lg.events = <<>>
    THEN [logger |-> [lg EXCEPT !.isFlushInProgress = FALSE], flights |-> fl,
          began |-> 1]
    ELSE [logger |-> [lg EXCEPT !.events = <<>>, !.isFlushInProgress = TRUE],
          flights |-> fl \cup {[stage |-> "payload", events |-> lg.events]},
          began |-> 1]

\* the finally block, first statement
FlushOver(lg) == [lg EXCEPT !.isFlushInProgress = FALSE]

\* the events of es counted as sent once more
SentOnceMore(sent, es) ==
    [i \in 1..Len(sent) |-> IF i \in Range(es) /\ sent[i] < 2
                            THEN sent[i] + 1 ELSE sent[i]]

othersVars == <<now, file, lock, issued, memoryCache, credentials,
                refreshPromise, pending, pc, forceRefresh, attempt, outcome,
                obs, flowVars, client, keysVars, ui>>

\* enqueueLogEvent
EnqueueLogEvent ==
    LET e == lobs.nextId
        r == Enqueued(logger.events, e)
    IN
    /\ e <= MaxLogged
    /\ logger' = [logger EXCEPT !.events = r.items]
    /\ lobs' = [lobs EXCEPT
                  !.nextId = e + 1,
                  !.sent = Append(@, 0),
                  !.kept = ~r.threw,
                  !.dropped = @ \cup ((Range(logger.events) \cup {e}) \ Range(r.items))]
    /\ UNCHANGED <<flights, othersVars>>

\* flushToRum is called from outside
FlushToRum ==
    LET r == FlushBegun(logger, flights) IN
    /\ lobs.calls < MaxFlushCalls
    /\ logger' = r.logger
    /\ flights' = r.flights
    /\ lobs' = [lobs EXCEPT !.calls = @ + 1, !.began = @ + r.began]
    /\ UNCHANGED othersVars

\* createRumPayload settles; when it rejects, so does flushToRum
PayloadBuilt(f, ok) ==
    /\ f \in flights
    /\ f.stage = "payload"
    /\ flights' = IF ok THEN (flights \ {f}) \cup {[f EXCEPT !.stage = "sending"]}
                  ELSE flights \ {f}
    /\ lobs' = [lobs EXCEPT !.payloadFailed = @ \/ ~ok]
    /\ UNCHANGED <<logger, othersVars>>

\* retryWithBackoff settles: after a failure the events are requeued; the
\* finally block resets the flag and starts the pending flush, if any
SendSettled(f, ok) ==
    LET back == IF ok THEN logger.events ELSE Requeued(logger.events, f.events)
        over == FlushOver([logger EXCEPT !.events = back])
        r == IF over.pendingFlush
             THEN FlushBegun([over EXCEPT !.pendingFlush = FALSE], flights \ {f})
             ELSE [logger |-> over, flights |-> flights \ {f}, began |-> 0]
    IN
    /\ f \in flights
    /\ f.stage = "sending"
    /\ logger' = r.logger
    /\ flights' = r.flights
    /\ lobs' = [lobs EXCEPT
                  !.began = @ + r.began,
                  !.sent = IF ok THEN SentOnceMore(@, f.events) ELSE @,
                  !.dropped = IF ok THEN @
                              ELSE @ \cup (Range(f.events) \ Range(back))]
    /\ UNCHANGED othersVars

InitLogger ==
    /\ InitWith({})
    /\ file.creds = ExpiredCredentials
    /\ lock = NoLock
    /\ FlowAt("off")
    /\ AppOff

NextLogger ==
    \/ EnqueueLogEvent
    \/ FlushToRum
    \/ \E f \in flights, ok \in BOOLEAN : PayloadBuilt(f, ok)
    \/ \E f \in flights, ok \in BOOLEAN : SendSettled(f, ok)

\* one DeltaLogger
SpecLogger == InitLogger /\ [][NextLogger]_vars

\* -------------------------------------------------------------- useKeypress
\* keys and focus changes in one run
MaxItems == 3

\* a byte or a key with where it comes from: typed by the user ("user"),
\* part of a focus sequence of the terminal ("focus"), or made up by the
\* hook when it lets go of a prefix it held back ("held")
Item(sequence, origin) == [sequence |-> sequence, origin |-> origin]

\* the keys a user types here: a character, and the characters that end a
\* focus sequence
UserKeys == {"x", "I", "O"}
FocusEnds == {"I", "O"}

\* ESC [ I and ESC [ O, byte by byte
FocusBytes(io) == <<Item("ESC", "focus"), Item("[", "focus"), Item(io, "focus")>>

\* flushHeldFocusPrefix: what is delivered for the prefix held back
HeldKeys(prefix) ==
    IF prefix = <<"ESC">> THEN <<Item("ESC", "held")>>
    ELSE IF prefix = <<"ESC", "[">> THEN <<Item("ESC", "held"), Item("[", "held")>>
    ELSE <<>>

\* the key is swallowed because the raw data watcher counted a focus
\* sequence
Suppressed(kp, key) ==
    kp.suppressFocusIOCount > 0 /\ key.sequence \in FocusEnds

\* mutant: a key that is a whole focus sequence is passed on
IsFocusSequence_Never(key) == FALSE

\* key.sequence is FOCUS_IN or FOCUS_OUT
IsFocusSequence(key) == key.sequence \in {"ESC[I", "ESC[O"}

\* the rest of handleKeypress once the focus filter let the key through:
\* a whole focus sequence is ignored, any other key is delivered
PassedOn(kp, out, key) ==
    IF IsFocusSequence(key)
    THEN [keypress |-> kp, delivered |-> out]
    ELSE [keypress |-> kp, delivered |-> Append(out, key)]

\* handleKeypress for the closure kp and the keys out delivered so far
HandleKeypress(kp, out, key) ==
    IF Suppressed(kp, key)
    THEN [keypress |-> [kp EXCEPT !.suppressFocusIOCount = @ - 1], delivered |-> out]
    ELSE IF kp.focusKeypressState = 0
    THEN IF key.sequence = "ESC"
         THEN [keypress |-> [kp EXCEPT !.focusKeypressState = 1,
                                       !.heldFocusPrefix = <<"ESC">>,
                                       !.focusKeypressTimer = 1],
               delivered |-> out]
         ELSE PassedOn(kp, out, key)
    ELSE IF kp.focusKeypressState = 1
    THEN IF key.sequence = "["
         THEN [keypress |-> [kp EXCEPT !.focusKeypressState = 2,
                                       !.heldFocusPrefix = <<"ESC", "[">>,
                                       !.focusKeypressTimer = 2],
               delivered |-> out]
         ELSE PassedOn([kp EXCEPT !.focusKeypressState = 0,
                                  !.focusKeypressTimer = 0,
                                  !.heldFocusPrefix = <<>>],
                       out \o HeldKeys(kp.heldFocusPrefix), key)
    ELSE IF key.sequence \in FocusEnds
         THEN [keypress |-> [kp EXCEPT !.focusKeypressState = 0,
                                       !.focusKeypressTimer = 0,
                                       !.heldFocusPrefix = <<>>],
               delivered |-> out]
         ELSE PassedOn([kp EXCEPT !.focusKeypressState = 0,
                                  !.focusKeypressTimer = 0,
                                  !.heldFocusPrefix = <<>>],
                       out \o HeldKeys(kp.heldFocusPrefix), key)

\* the keypress events readline makes of the bytes written to the
\* keypress stream, handled one after the other; a byte that is a
\* character is one key
RECURSIVE HandleKeypresses(_, _, _)
HandleKeypresses(kp, out, bytes) ==
    IF bytes = <<>> THEN [keypress |-> kp, delivered |-> out]
    ELSE LET r == HandleKeypress(kp, out, Head(bytes)) IN
         HandleKeypresses(r.keypress, r.delivered, Tail(bytes))

\* the first loop of handleRawKeypress: focus sequences are taken out of
\* the bytes, also when they span chunks, and counted
RECURSIVE Sanitized(_, _, _, _)
Sanitized(bytes, state, count, out) ==
    IF bytes = <<>>
    THEN [focusSeqState |-> state, suppressFocusIOCount |-> count,
          sanitizedBytes |-> out]
    ELSE LET b == Head(bytes)
             rest == Tail(bytes)
             esc == Item("ESC", "held")
             bracket == Item("[", "held")
         IN
         IF state = 0
         THEN IF b.sequence = "ESC" THEN Sanitized(rest, 1, count, out)
              ELSE Sanitized(rest, 0, count, Append(out, b))
         ELSE IF state = 1
         THEN IF b.sequence = "[" THEN Sanitized(rest, 2, count, out)
              ELSE IF b.sequence = "ESC"
              THEN Sanitized(rest, 1, count, Append(out, esc))
              ELSE Sanitized(rest, 0, count, out \o <<esc, b>>)
         ELSE IF b.sequence \in FocusEnds
              THEN Sanitized(rest, 0, count + 1, out)
              ELSE IF b.sequence = "ESC"
              THEN Sanitized(rest, 1, count, out \o <<esc, bracket>>)
              ELSE Sanitized(rest, 0, count, out \o <<esc, bracket, b>>)

notKeysVars == <<now, file, lock, issued, memoryCache, credentials,
                 refreshPromise, pending, pc, forceRefresh, attempt, outcome,
                 obs, flowVars, client, loggerVars, ui>>

\* the user types a key: with the raw data watcher in place its byte is
\* written to stdin, otherwise readline emits its keypress event
UserTypes(c) ==
    /\ kobs.items < MaxItems
    /\ kobs.split = 0
    /\ IF keypress.usePassthrough
       THEN /\ stdin' = Append(stdin, Item(c, "user"))
            /\ kobs' = [kobs EXCEPT !.items = @ + 1, !.typed = Append(@, c)]
            /\ UNCHANGED keypress
       ELSE LET r == HandleKeypress(keypress, kobs.delivered, Item(c, "user")) IN
            /\ keypress' = r.keypress
            /\ kobs' = [kobs EXCEPT !.items = @ + 1, !.typed = Append(@, c),
                                    !.delivered = r.delivered]
            /\ UNCHANGED stdin
    /\ UNCHANGED notKeysVars

\* the terminal gains or loses focus: its sequence is written to stdin, or
\* readline emits it as one keypress event
FocusChanges(io) ==
    /\ kobs.items < MaxItems
    /\ kobs.split = 0
    /\ IF keypress.usePassthrough
       THEN /\ stdin' = stdin \o FocusBytes(io)
            /\ kobs' = [kobs EXCEPT !.items = @ + 1, !.focus = @ + 1]
            /\ UNCHANGED keypress
       ELSE LET r == HandleKeypress(keypress, kobs.delivered,
                                    Item("ESC[" \o io, "focus")) IN
            /\ keypress' = r.keypress
            /\ kobs' = [kobs EXCEPT !.items = @ + 1, !.focus = @ + 1,
                                    !.delivered = r.delivered]
            /\ UNCHANGED stdin
    /\ UNCHANGED notKeysVars

\* the terminal gains or loses focus and readline emits the sequence as
\* three keypress events: this is the next of them
FocusPieceArrives(io) ==
    LET piece == FocusBytes(io)[kobs.split + 1]
        r == HandleKeypress(keypress, kobs.delivered, piece)
    IN
    /\ ~keypress.usePassthrough
    /\ kobs.split > 0 \/ kobs.items < MaxItems
    /\ keypress' = r.keypress
    /\ kobs' = [kobs EXCEPT !.items = IF kobs.split = 0 THEN @ + 1 ELSE @,
                            !.focus = IF kobs.split = 0 THEN @ + 1 ELSE @,
                            !.split = (@ + 1) % 3,
                            !.delivered = r.delivered]
    /\ UNCHANGED <<stdin, notKeysVars>>

\* stdin emits the first n bytes as one chunk of data: handleRawKeypress
\* takes the focus sequences out and writes the rest to the keypress
\* stream, whose keypress events handleKeypress gets
HandleRawKeypress(n) ==
    LET s == Sanitized(SubSeq(stdin, 1, n), keypress.focusSeqState,
                       keypress.suppressFocusIOCount, <<>>)
        r == HandleKeypresses(
                [keypress EXCEPT !.focusSeqState = s.focusSeqState,
                                 !.suppressFocusIOCount = s.suppressFocusIOCount],
                kobs.delivered, s.sanitizedBytes)
    IN
    /\ keypress.usePassthrough
    /\ n \in 1..Len(stdin)
    /\ stdin' = SubSeq(stdin, n + 1, Len(stdin))
    /\ keypress' = r.keypress
    /\ kobs' = [kobs EXCEPT !.delivered = r.delivered]
    /\ UNCHANGED notKeysVars

\* the 25 ms timer set while a prefix is held back fires: the prefix is
\* delivered as keys
FocusKeypressTimerFires ==
    /\ keypress.focusKeypressTimer # 0
    /\ IF keypress.focusKeypressState = keypress.focusKeypressTimer
       THEN /\ keypress' = [keypress EXCEPT !.focusKeypressState = 0,
                                            !.focusKeypressTimer = 0,
                                            !.heldFocusPrefix = <<>>]
            /\ kobs' = [kobs EXCEPT !.delivered = @ \o HeldKeys(keypress.heldFocusPrefix),
                                    !.late = TRUE]
       ELSE /\ keypress' = [keypress EXCEPT !.focusKeypressTimer = 0]
            /\ UNCHANGED kobs
    /\ UNCHANGED <<stdin, notKeysVars>>

InitKeypress ==
    /\ InitWith({})
    /\ file.creds = ExpiredCredentials
    /\ lock = NoLock
    /\ FlowAt("off")
    /\ client = NoClient
    /\ logger = NoLogger /\ flights = {} /\ lobs = NoLoggerObs
    /\ ui = NoUi
    /\ \E legacy \in BOOLEAN : keypress = [NoKeypress EXCEPT !.usePassthrough = legacy]
    /\ stdin = <<>>
    /\ kobs = NoKeysObs

NextKeypress ==
    \/ \E c \in UserKeys : UserTypes(c)
    \/ \E io \in FocusEnds : FocusChanges(io)
    \/ \E io \in FocusEnds : FocusPieceArrives(io)
    \/ \E n \in 1..(3 * MaxItems) : HandleRawKeypress(n)
    \/ FocusKeypressTimerFires

\* one terminal and one useKeypress
SpecKeypress == InitKeypress /\ [][NextKeypress]_vars

\* ===================================================================== C1
\* the calls of process p that own its refresh in flight
RefreshOwners(p) ==
    {k \in K : Proc(k) = p /\ pc[k] \in {"acquire", "reclaim", "recheck",
                                         "refreshing", "persist", "release"}}

\* the calls of process p, made with the default forceRefresh against
\* expired credentials, that have resolved
ResolvedFromExpired(p) ==
    {k \in K : /\ Proc(k) = p
               /\ pc[k] = "done"
               /\ obs[k].staleAtCall
               /\ ~forceRefresh[k]
               /\ outcome[k].err = "none"}

\* the calls of process p whose refreshAccessToken request was not refused
SuccessfulRequests(p) ==
    {k \in K : /\ Proc(k) = p
               /\ obs[k].net >= 1
               /\ obs[k].resp \in {"none", "ok", "ok_keep"}}

\* C1: within one process there is never more than one refresh in flight,
\* and the getValidCredentials calls (default forceRefresh) that started
\* against expired credentials and resolved have caused exactly one
\* refreshAccessToken request and all hold the same new record.
C1_SingleFlight ==
    \A p \in Procs :
        /\ Cardinality(RefreshOwners(p)) <= 1
        /\ (refreshPromise[p] # 0) <=> (RefreshOwners(p) # {})
        /\ (\A k \in K : Proc(k) = p => ~forceRefresh[k]) =>
              LET G == ResolvedFromExpired(p) IN
              G # {} =>
                 /\ \A k1, k2 \in G : outcome[k1].creds = outcome[k2].creds
                 /\ \A k \in G : outcome[k].creds.access_token >= 10
                 /\ Cardinality(SuccessfulRequests(p)) = 1
                 /\ \A k \in K : Proc(k) = p => obs[k].net <= 1

\* two overlapping calls of one process: one refreshed, the other awaited it
C1_Witness ==
    \E k1, k2 \in K :
        /\ Proc(k1) = Proc(k2) /\ k1 # k2
        /\ {k1, k2} \subseteq ResolvedFromExpired(Proc(k1))
        /\ outcome[k1].via = "refresh"
        /\ outcome[k2].via = "shared"
        /\ obs[k2].net = 0

\* ===================================================================== C2
\* the processes inside the refresh-and-persist sequence: between a
\* successful creation of the lock marker and its release
InsideCritical ==
    {p \in Procs : \E k \in K : Proc(k) = p /\
                     pc[k] \in {"recheck", "refreshing", "persist", "release"}}

\* C2: at most one process at a time is inside the refresh-and-persist
\* sequence.
C2_MutualExclusion == Cardinality(InsideCritical) <= 1

\* ===================================================================== C3
\* call k leaves the stat: it takes the freshness decision of steps 2-4
Decides(k) == pc[k] = "stat" /\ pc'[k] # "stat"

\* the record rec expires more than 30 000 ms after time t
FreshAt(rec, t) == rec.expiry_date > t + 30000

\* what the decision of call k does with the cached record
C3_Decision(k) ==
    LET rec == memoryCache'[Proc(k)].credentials IN
    IF ~forceRefresh[k] /\ FreshAt(rec, now)
    THEN /\ pc'[k] = "done"
         /\ outcome'[k] = [via |-> "cache", creds |-> rec, err |-> "none"]
         /\ obs'[k].net = 0
         /\ refreshPromise' = refreshPromise
    ELSE /\ outcome'[k].via # "cache"
         /\ \/ pc'[k] = "acquire" /\ refreshPromise'[Proc(k)] = k[2]
            \/ pc'[k] = "awaitShared" /\ refreshPromise[Proc(k)] # 0
            \/ outcome'[k].err = "NO_REFRESH_TOKEN"

\* C3: a call that takes the freshness decision returns the cached record,
\* with no refresh request, exactly when forceRefresh is false and the
\* record expires more than 30 000 ms after the current time; otherwise it
\* goes for a refresh (starts one, joins the one in flight, or fails fast for
\* want of a refresh token).  A record returned from the cache has cost no
\* request.
C3_CachedIffFresh ==
    /\ [][\A k \in K : Decides(k) => C3_Decision(k)]_vars
    /\ [](\A k \in K : outcome[k].via = "cache" =>
              obs[k].net = 0 /\ ~obs[k].locked /\ ~obs[k].wrote)

\* one call got the cached record although it is 45 s from expiry only, and
\* a forced call of the same process went through a refresh
C3_Witness ==
    \E k1, k2 \in K :
        /\ Proc(k1) = Proc(k2)
        /\ outcome[k1].via = "cache" /\ ~forceRefresh[k1]
        /\ outcome[k1].creds = SoonExpiringCredentials
        /\ forceRefresh[k2] /\ outcome[k2].via = "refresh" /\ obs[k2].net = 1

\* ===================================================================== C4
\* the credential file is newer than what process p has cached
FileIsNewer(p) == file.exists /\ file.mtime > memoryCache[p].fileModTime

\* C4: when the credential file is newer than the cached fileModTime, a call
\* that takes the freshness decision first replaces the cached record by the
\* record on disk, whatever the cached record was, and (forceRefresh being
\* false) returns the record on disk with no refresh request when that
\* record is still valid.
C4_FileWins ==
    [][\A k \in K : (Decides(k) /\ FileIsNewer(Proc(k))) =>
          /\ memoryCache'[Proc(k)] =
                [credentials |-> file.creds, fileModTime |-> file.mtime]
          /\ (~forceRefresh[k] /\ FreshAt(file.creds, now)) =>
                /\ pc'[k] = "done"
                /\ outcome'[k] = [via |-> "cache", creds |-> file.creds, err |-> "none"]
                /\ obs'[k].net = 0
                /\ issued' = issued]_vars

\* a process whose cached record was still valid returned the record another
\* process had written to the file
C4_Witness ==
    \E k \in K :
        /\ obs[k].replacedValid
        /\ outcome[k].via = "cache"
        /\ outcome[k].creds.access_token >= 10
        /\ outcome[k].creds = file.creds
        /\ obs[k].net = 0

\* ===================================================================== C5
\* C5: a call that takes the freshness decision while the cached record is
\* expired and the client's record has no refresh_token is rejected with
\* NO_REFRESH_TOKEN at once: no refresh request, no lock marker, no file
\* write.  No refresh request is ever sent for a record without
\* refresh_token.
C5_NoRefreshToken ==
    /\ [][\A k \in K :
            (/\ Decides(k)
             /\ credentials[Proc(k)].refresh_token = 0
             /\ ~FreshAt(memoryCache'[Proc(k)].credentials, now)) =>
               /\ pc'[k] = "done"
               /\ outcome'[k].err = "NO_REFRESH_TOKEN"
               /\ obs'[k].net = 0
               /\ lock' = lock /\ file' = file /\ issued' = issued]_vars
    /\ [](\A k \in K :
            /\ pc[k] = "refreshing" => credentials[Proc(k)].refresh_token # 0
            /\ outcome[k].err = "NO_REFRESH_TOKEN" =>
                  obs[k].net = 0 /\ ~obs[k].locked /\ ~obs[k].wrote)

\* a call was rejected over the expired record that has no refresh_token
C5_Witness ==
    \E k \in K :
        /\ outcome[k].err = "NO_REFRESH_TOKEN"
        /\ memoryCache[Proc(k)].credentials = ExpiredNoRefreshToken
        /\ credentials[Proc(k)] = ExpiredNoRefreshToken
        /\ file.creds = ExpiredNoRefreshToken

\* ===================================================================== C6
\* call k, holding the lock, leaves the re-check
Rechecks(k) == pc[k] = "recheck" /\ pc'[k] # "recheck"

\* C6: a call with forceRefresh false that has acquired the lock and finds
\* on disk a newer record, one that the refresh of another process produced,
\* adopts that record and sends no refresh request; a call that resolved by
\* adoption holds a server-issued record, has sent no request and written no
\* file, and the process that wrote the record sent the one request there
\* was between the two.
C6_AdoptAfterLock ==
    /\ [][\A k \in K :
            (/\ Rechecks(k)
             /\ ~forceRefresh[k]
             /\ FileIsNewer(Proc(k))
             /\ file.creds.access_token >= 10) =>
               /\ pc'[k] = "release"
               /\ pending'[Proc(k)] =
                     [via |-> "adopt", creds |-> file.creds, err |-> "none"]
               /\ obs'[k].net = 0
               /\ issued' = issued /\ file' = file]_vars
    /\ [](\A k \in K : (pc[k] = "done" /\ outcome[k].via = "adopt") =>
            /\ obs[k].net = 0 /\ ~obs[k].wrote
            /\ outcome[k].creds.access_token >= 10
            /\ \E j \in K :
                  /\ Proc(j) # Proc(k)
                  /\ obs[j].wrote
                  /\ obs[j].net + obs[k].net = 1)

\* two processes met the same expired record: A refreshed and persisted, B
\* waited for the lock and resolved with A's record, having sent nothing
C6_Witness ==
    \E a, b \in K :
        /\ Proc(a) # Proc(b)
        /\ obs[a].staleAtCall /\ obs[b].staleAtCall
        /\ ~forceRefresh[a] /\ ~forceRefresh[b]
        /\ pc[a] = "done" /\ outcome[a].via = "refresh" /\ obs[a].net = 1
        /\ pc[b] = "done" /\ outcome[b].via = "adopt" /\ obs[b].net = 0
        /\ outcome[b].creds = outcome[a].creds
        /\ issued = 1

\* ===================================================================== C7
\* call k, trying to acquire the lock, takes a step
Attempts(k) ==
    /\ pc[k] = "acquire"
    /\ pc'[k] # "acquire" \/ attempt'[k] # attempt[k]

\* the marker at the path is older than 15 s
MarkerIsOld == lock.exists /\ now - lock.mtime > 15000

\* C7 as stated: a call that found a stale marker goes on to hold the lock
\* and does not end with LOCK_TIMEOUT.
C7_StaleNeverTimesOut ==
    \A k \in K : (pc[k] = "done" /\ obs[k].sawStale) =>
        obs[k].locked /\ outcome[k].err # "LOCK_TIMEOUT"

\* C7, amended: a marker older than 15 s is never waited on: the attempt
\* that meets it goes on to delete it; the delete removes the marker and,
\* when the call has attempts left, is followed by the next attempt at once;
\* an attempt that meets no marker creates one of its own and holds the lock.
C7_StaleReclaimed ==
    [][\A k \in K :
          /\ (Attempts(k) /\ MarkerIsOld) =>
                pc'[k] = "reclaim" /\ now' = now /\ outcome'[k] = outcome[k]
          /\ (pc[k] = "reclaim" /\ pc'[k] # "reclaim") =>
                /\ ~lock'.exists
                /\ attempt[k] + 1 < MaxAttempts =>
                      pc'[k] = "acquire" /\ now' = now
          /\ (Attempts(k) /\ ~lock.exists) =>
                /\ lock' = [exists |-> TRUE, mtime |-> now, owner |-> Proc(k)]
                /\ pc'[k] = "recheck"]_vars

\* a call found the marker of a crashed process stale, took the lock after
\* deleting it and resolved from its own refresh
C7_Witness ==
    \E k \in K :
        /\ obs[k].sawStale /\ obs[k].locked
        /\ pc[k] = "done" /\ outcome[k].via = "refresh"
        /\ ~lock.exists

\* ===================================================================== C8
\* the marker at the path is no older than 15 s
MarkerIsYoung == lock.exists /\ now - lock.mtime <= 15000

\* C8: an attempt that meets a marker younger than the stale threshold
\* waits attemptInterval and counts one failed attempt, and the attempt
\* numbered maxAttempts rejects the call with LOCK_TIMEOUT instead; neither
\* touches the marker or the credential file or sends a request.  No call
\* ever counts maxAttempts failed attempts, and a call rejected with
\* LOCK_TIMEOUT has sent no refresh request, written no file and never held
\* the lock.
C8_LockTimeout ==
    /\ [][\A k \in K : (Attempts(k) /\ MarkerIsYoung) =>
            /\ lock' = lock /\ file' = file /\ issued' = issued
            /\ obs'[k] = obs[k]
            /\ IF attempt[k] + 1 < MaxAttempts
               THEN /\ pc'[k] = "acquire"
                    /\ attempt'[k] = attempt[k] + 1
                    /\ now' = now + AttemptInterval
               ELSE /\ pc'[k] = "done"
                    /\ outcome'[k].err = "LOCK_TIMEOUT"]_vars
    /\ [](\A k \in K :
            /\ attempt[k] < MaxAttempts
            /\ outcome[k].err = "LOCK_TIMEOUT" =>
                  obs[k].net = 0 /\ ~obs[k].wrote /\ ~obs[k].locked)

\* a call gave up on a marker that stayed young: two waits of attemptInterval
\* lie behind it and the marker is still there
C8_Witness ==
    \E k \in K :
        /\ pc[k] = "done" /\ outcome[k].err = "LOCK_TIMEOUT"
        /\ ~obs[k].sawStale
        /\ MarkerIsYoung
        /\ now = StartTime + (MaxAttempts - 1) * AttemptInterval

\* ===================================================================== C9
\* C9: the answer to a successful refresh request yields the record with the
\* new access_token, a refresh_token and expiry_date = time of the answer +
\* expires_in * 1000; when the call resolves from that refresh, the record it
\* returns, the cached record of its process and the record in the
\* credential file are this record, and no lock marker is left.
C9_RefreshedRecord ==
    [][\A k \in K :
          /\ (pc[k] = "refreshing" /\ pc'[k] = "persist") =>
                /\ pending'[Proc(k)].via = "refresh"
                /\ pending'[Proc(k)].creds.access_token = 10 + issued'
                /\ pending'[Proc(k)].creds.refresh_token # 0
                /\ pending'[Proc(k)].creds.expiry_date = now' + EXPIRES_IN * 1000
          /\ (pc[k] = "release" /\ pc'[k] = "done" /\ pending[Proc(k)].via = "refresh") =>
                /\ outcome'[k] = pending[Proc(k)]
                /\ memoryCache'[Proc(k)].credentials = outcome'[k].creds
                /\ file'.exists /\ file'.creds = outcome'[k].creds
                /\ ~lock'.exists]_vars

\* ==================================================================== C10
\* the answers that make a refresh fail
Failures == {"ok_no_token", "error_body", "http400", "http500", "network"}

\* C10: no call sends more than one refresh request.  A failing answer puts
\* a typed error in place of the result, with no further request, and leaves
\* the cached record as it is and the record on disk as it is or deleted;
\* the call then releases the lock and is rejected with that error, cache
\* and file untouched.  A call rejected for a failed refresh has written no
\* file.
C10_NoRetry ==
    /\ [][\A k \in K :
            /\ (pc[k] = "refreshing" /\ pc'[k] # "refreshing"
                   /\ obs'[k].resp \in Failures) =>
                  /\ pc'[k] = "release"
                  /\ pending'[Proc(k)].err \in {"REFRESH_FAILED", "NETWORK_ERROR"}
                  /\ obs'[k].net = obs[k].net
                  /\ memoryCache' = memoryCache
                  /\ file' = file \/ file' = NoFile
            /\ (pc[k] = "release" /\ pc'[k] # "release"
                   /\ pending[Proc(k)].err # "none") =>
                  /\ pc'[k] = "done"
                  /\ outcome'[k] = pending[Proc(k)]
                  /\ memoryCache' = memoryCache /\ file' = file
                  /\ issued' = issued]_vars
    /\ [](\A k \in K :
            /\ obs[k].net <= 1
            /\ outcome[k].err \in {"REFRESH_FAILED", "NETWORK_ERROR"} =>
                  ~obs[k].wrote)

\* a call was rejected after the server answered its one request with HTTP
\* 500; the expired record is still the one cached and the one on disk
C10_Witness ==
    \E k \in K :
        /\ pc[k] = "done" /\ outcome[k].err = "REFRESH_FAILED"
        /\ obs[k].resp = "http500" /\ obs[k].net = 1
        /\ file.exists /\ file.creds = ExpiredCredentials
        /\ memoryCache[Proc(k)].credentials = ExpiredCredentials

\* ==================================================================== C11
\* the types of a TokenManagerError
TokenErrors == {"REFRESH_FAILED", "NETWORK_ERROR", "LOCK_TIMEOUT", "NO_REFRESH_TOKEN"}

EndedWithoutSuccess == fpc = "done" /\ fResult # "success"

\* C12: a device flow that ends in error, timeout, rate_limit or cancelled
\* leaves the credential file and the client's credentials as they were when
\* it was called; only the transition to success sets them.
C12_OnlyOnSuccess ==
    EndedWithoutSuccess =>
        /\ file = fobs.file0
        /\ credentials[FlowProc] = fobs.creds0

\* ==================================================================== C13
\* the wait interval after a poll that pollDeviceToken answered with o
IntervalAfter(o) ==
    IF isDeviceTokenPending(o)
    THEN IF o.slowDown
         THEN (IF (pollInterval * 3) \div 2 <= 10000
               THEN (pollInterval * 3) \div 2 ELSE 10000)
         ELSE 2000
    ELSE pollInterval

\* the three polls sent so far were answered Pending, Pending{slowDown},
\* Success
PendingSlowSuccess == fobs.polls = 3 /\ fobs.resps = <<"P", "S", "T">>

\* C13: the first poll goes out with an interval of 2000 ms; a slow_down
\* answer makes it min(interval * 1.5, 10000), a plain pending answer 2000,
\* nothing else changes it, and it stays within [2000, 10000]; after the
\* answers Pending, Pending{slowDown}, Success the waits were 2000 and 3000
\* and, the record once written, the flow has ended in success with the
\* record of the third answer as the client's and the file's.
C13_PollInterval ==
    /\ [](fobs.polls > 0 => pollInterval >= 2000 /\ pollInterval <= 10000)
    /\ [](fobs.polls = 1 /\ fpc = "polling" => pollInterval = 2000)
    /\ [][\A resp \in PollResponses, b \in BOOLEAN :
             PollResponds(resp, b) =>
                pollInterval' = IntervalAfter(PollDeviceToken(resp, b))]_vars
    /\ [][fpc # "polling" => pollInterval' = pollInterval
                              \/ (fpc = "start" /\ pollInterval' = 2000)]_vars
    /\ [](PendingSlowSuccess =>
            /\ fobs.waits = <<2000, 3000>>
            /\ fobs.waits[2] > fobs.waits[1]
            /\ fobs.built.access_token = 33
            /\ credentials[FlowProc] = fobs.built
            /\ (fobs.wrote =>
                   /\ fpc = "done" /\ fResult = "success"
                   /\ file.creds = fobs.built))

C13_Witness ==
    /\ PendingSlowSuccess
    /\ fResult = "success"
    /\ fobs.waits = <<2000, 3000>>
    /\ credentials[FlowProc].access_token = 33

\* the interval reaches its cap
C13_CapReached == pollInterval = 10000 /\ fpc = "waiting"

\* ==================================================================== C14
\* what follows a cancel published while the flow was in the wait at
CancelEnds(at) ==
    fobs.cancelIn = at =>
        /\ fobs.afterCancel <= 1
        /\ fobs.polls = fobs.cancelPolls
        /\ (fobs.afterCancel = 1 => fpc = "done")
        /\ (fpc = "done" => fResult = "cancelled")

\* C14: after a cancel published during an inter-poll wait, be it the wait
\* after a pending answer or the one after a polling error, the flow waits
\* for at most one more tick of 100 ms, sends no further poll and returns
\* with reason cancelled.
C14_CancelEndsWait == CancelEnds("waiting") /\ CancelEnds("errwait")

\* the same for the wait after a pending answer alone
C14_CancelEndsPendingWait == CancelEnds("waiting")

\* ==================================================================== C15
\* a flow that has returned sends no poll, waits no more and stays returned
Terminal ==
    fpc = "done" =>
        /\ fpc' = "done"
        /\ fResult' = fResult
        /\ fobs'.polls = fobs.polls
        /\ elapsedTime' = elapsedTime

\* C15: a poll answered with HTTP 401 ends the flow with reason error in
\* the step that handles the answer, and a flow that has ended polls and
\* waits no more.
C15_UnauthorizedEnds ==
    [][/\ \A resp \in PollResponses, b \in BOOLEAN :
            resp.status = 401 /\ PollResponds(resp, b) =>
                fpc' = "done" /\ fResult' = "error"
       /\ Terminal]_vars

\* ==================================================================== C16
\* C16: a poll answered with HTTP 429 and an error other than slow_down
\* ends the flow with reason rate_limit and a progress event of status
\* rate_limit; a poll answered with HTTP 429 slow_down does not end it.
C16_RateLimitEnds ==
    [][\A resp \in PollResponses, b \in BOOLEAN :
          resp.status = 429 /\ PollResponds(resp, b) =>
             IF resp.body = "slow_down"
             THEN fpc' = "waiting" /\ fResult' = "none"
             ELSE /\ fpc' = "done" /\ fResult' = "rate_limit"
                  /\ events'.last.status = "rate_limit"
                  /\ events'.count = events.count + 1]_vars

\* ==================================================================== C17
Reasons == {"success", "error", "rate_limit", "cancelled", "timeout"}

\* C17: a flow sends at most maxAttempts = ceil(expires_in / 2) polls; it
\* returns with reason timeout exactly when it has sent them all and none
\* ended it; and, every poll being answered, the flow returns.
C17_BoundedPolling ==
    /\ [][\A e \in DeviceExpiresIn :
             DeviceAuthorizationResponds(TRUE, e) => fMax' = (e + 1) \div 2]_vars
    /\ [](fobs.polls <= fMax)
    /\ [](fpc = "done" =>
            /\ fResult \in Reasons
            /\ (fResult = "timeout" =>
                   fobs.polls = fMax /\ events.last.status = "timeout"))
    /\ [][fpc' = "done" /\ fpc \in {"waiting", "errwait"} /\ ~isCancelled
             => fResult' = "timeout" /\ fobs.polls = fMax]_vars
    /\ <>(fpc = "done")

C17_Witness ==
    /\ fpc = "done"
    /\ fResult = "timeout"
    /\ fMax = 4
    /\ fobs.polls = 4

\* ==================================================================== C18
\* the flow returns in this step, and not with success
ReturnsWithoutSuccess == fpc # "done" /\ fpc' = "done" /\ fResult' # "success"

\* C18: the step in which the flow returns with a reason other than success
\* emits an AuthProgress event that carries a message.
C18_EndingAnnounced ==
    [][ReturnsWithoutSuccess =>
          /\ events'.count = events.count + 1
          /\ events'.last.status \in {"error", "rate_limit", "timeout"}
          /\ events'.last.message # "none"]_vars

\* the same for the flows whose device authorization was granted
C18_PollingEndingAnnounced ==
    [][ReturnsWithoutSuccess /\ fpc # "start" =>
          /\ events'.count = events.count + 1
          /\ events'.last.status \in {"error", "rate_limit", "timeout"}
          /\ events'.last.message # "none"]_vars

\* ==================================================================== C19
\* the record the claim describes for the token answer resp to the n-th poll
\* at time t: expires_in is 3600 where it is present
RecordOf(resp, n, t) ==
    [access_token |-> 30 + n,
     refresh_token |-> IF resp.body = "token_bare" THEN 0 ELSE 40 + n,
     expiry_date |-> IF resp.body = "token" THEN t + 3600 * 1000 ELSE 0]

\* the record of the token answer is built as the claim says, and after
\* success it is the content of the credential file until the manager
\* writes
RecordPersisted ==
    /\ [][\A resp \in PollResponses, b \in BOOLEAN :
             (resp.status = 200 /\ resp.body \in TokenBodies /\ PollResponds(resp, b))
                => fobs'.built = RecordOf(resp, fobs.polls, now)]_vars
    /\ [](fResult = "success" /\ pc[FlowCall] \in {"idle", "stat"} =>
            /\ file.exists
            /\ file.creds = fobs.built
            /\ credentials[FlowProc] = fobs.built)

\* the next call, made with the default forceRefresh, takes its decision
NextCallDecides == Decides(FlowCall) /\ ~forceRefresh[FlowCall]

\* C19 as stated: after success the file holds the record built from the
\* token answer, and the next getValidCredentials call adopts it from disk
\* and returns it.
C19_AdoptedAndReturned ==
    /\ RecordPersisted
    /\ [][NextCallDecides =>
             /\ memoryCache'[FlowProc].credentials = fobs.built
             /\ pc'[FlowCall] = "done"
             /\ outcome'[FlowCall] =
                   [via |-> "cache", creds |-> fobs.built, err |-> "none"]]_vars

\* C19, amended: after success the file holds the record built from the
\* token answer and the next getValidCredentials call adopts it from disk;
\* it returns it, without a request, when its expiry_date is more than 30 s
\* ahead; a record without expiry_date counts as expired, and the call goes
\* on to refresh it or, the record having no refresh_token, is rejected with
\* NO_REFRESH_TOKEN.
C19_AdoptedReturnedIfValid ==
    /\ RecordPersisted
    /\ [][NextCallDecides =>
             /\ memoryCache'[FlowProc] =
                   [credentials |-> fobs.built, fileModTime |-> file.mtime]
             /\ IF fobs.built.expiry_date > now + 30000
                THEN /\ pc'[FlowCall] = "done"
                     /\ outcome'[FlowCall] =
                           [via |-> "cache", creds |-> fobs.built, err |-> "none"]
                     /\ obs'[FlowCall].net = 0
                ELSE /\ fobs.built.expiry_date = 0
                     /\ IF fobs.built.refresh_token = 0
                        THEN /\ pc'[FlowCall] = "done"
                             /\ outcome'[FlowCall].err = "NO_REFRESH_TOKEN"
                        ELSE pc'[FlowCall] = "acquire"]_vars

\* the next call returned the record of the flow from the cache
C19_Witness ==
    /\ fResult = "success"
    /\ pc[FlowCall] = "done"
    /\ outcome[FlowCall] = [via |-> "cache", creds |-> fobs.built, err |-> "none"]
    /\ fobs.built.access_token > 30
    /\ fobs.built.expiry_date = file.mtime + 3600 * 1000
    /\ file.creds = fobs.built
    /\ memoryCache[FlowProc].credentials = fobs.built

\* the next call was rejected although the flow had ended in success
C19_RejectedAfterSuccess ==
    /\ fResult = "success"
    /\ outcome[FlowCall].err = "NO_REFRESH_TOKEN"

\* ==================================================================== C20
\* the outcome o is the one the claim gives for the answer resp
OutcomeFor(resp, o) ==
    IF resp.status = 400 /\ resp.body = "authorization_pending"
    THEN o.kind = "pending" /\ ~o.slowDown
    ELSE IF resp.status = 429 /\ resp.body = "slow_down"
    THEN o.kind = "pending" /\ o.slowDown
    ELSE IF resp.status = 200
    THEN o.kind = "data" /\ o.body = resp.body
    ELSE /\ o.kind = "throw"
         /\ (resp.status # 0 => o.status = resp.status)

\* C20: pollDeviceToken turns HTTP 400 authorization_pending into Pending,
\* HTTP 429 slow_down into Pending{slowDown}, every other answer that is not
\* a success into an error that carries the HTTP status of the answer, and
\* returns the body of a success answer.
C20_PollOutcome ==
    [][\A resp \in PollResponses, b \in BOOLEAN :
          PollResponds(resp, b) => OutcomeFor(resp, PollDeviceToken(resp, b))]_vars

\* the same for answers whose body can be read twice, and, for all answers,
\* without the status of the error
C20_PollOutcomeKind ==
    [][\A resp \in PollResponses, b \in BOOLEAN :
          PollResponds(resp, b) =>
             /\ (b => OutcomeFor(resp, PollDeviceToken(resp, b)))
             /\ OutcomeFor(resp, [PollDeviceToken(resp, b) EXCEPT !.status = resp.status])]_vars

\* ==================================================================== C21
\* the answers on which refreshAccessToken throws
FailedAnswers == {"network", "http400", "http500", "error_body"}

\* what a refresh request that fails leaves as it was: the client's record
\* always, the credential file unless the answer is HTTP 400
FailureLeaves(k, resp) ==
    /\ credentials' = credentials
    /\ pending'[Proc(k)].via = "error"
    /\ (resp # "http400" => file' = file)

C22_NoPollAfterCancel ==
    /\ [](isCancelled => fobs.polls = fobs.cancelPolls)
    /\ [][isCancelled /\ fpc # "polling" => fpc' # "polling"]_vars

\* cancelled during the wait after a polling error, with attempts left
C22_Witness ==
    /\ fobs.cancelIn = "errwait"
    /\ fpc = "done"
    /\ fResult = "cancelled"
    /\ fobs.polls < fMax
    /\ fobs.polls = fobs.cancelPolls

\* cancelled while a poll was in flight whose answer was not recognised
C22_UnrecognisedWitness ==
    /\ fobs.cancelIn = "polling"
    /\ fpc = "done"
    /\ fResult = "cancelled"
    /\ events.count = 2
    /\ events.last.message = "cancelled"

\* ==================================================================== C23
\* C23: a flow during which AuthCancel was published does not end in
\* success and does not write the credential file.
C23_CancelledNeverSucceeds ==
    isCancelled => fResult # "success" /\ ~fobs.wrote

\* C23, amended: a flow does not end in success and does not write the
\* credential file when AuthCancel was published during the device
\* authorization request or during a wait between polls; a cancel published
\* while a poll or the write of the file is in flight does not stop it: a
\* token answer is still accepted and written, and the flow ends in success.
C23_CancelledWhileIdle ==
    /\ [](fobs.cancelIn \in {"start", "waiting", "errwait"} =>
            fResult # "success" /\ ~fobs.wrote /\ file = fobs.file0)
    /\ [][\A resp \in PollResponses, b \in BOOLEAN :
             (isCancelled /\ resp.status = 200 /\ resp.body \in TokenBodies
              /\ PollResponds(resp, b))
                => fpc' = "saving" /\ credentials'[FlowProc] = fobs'.built]_vars
    /\ [][isCancelled /\ CacheDeltaCredentials(TRUE) =>
             /\ fResult' = "success"
             /\ file'.creds = fobs.built]_vars

\* cancelled during the wait after a pending answer: nothing was written
C23_Witness ==
    /\ fobs.cancelIn = "waiting"
    /\ fpc = "done"
    /\ fResult = "cancelled"
    /\ fobs.afterCancel = 1
    /\ file = fobs.file0

\* cancelled while the poll was in flight, and ended in success
C23_SucceededAfterCancel ==
    /\ fobs.cancelIn = "polling"
    /\ fResult = "success"
    /\ fobs.wrote

\* ==================================================================== C24
\* process p holds the lock marker
HoldsLock(p) == lock.exists /\ lock.owner = p

\* call k of the manager takes a step that changes the credential file
ManagerChangesFile(k) ==
    /\ pc[k] \in {"refreshing", "persist"}
    /\ pc'[k] # pc[k]
    /\ file' # file

\* the device flow takes the step that writes the credential file
FlowWritesFile == fpc = "saving" /\ file' # file

\* C24: every step that writes or deletes the credential file, be it the
\* persist of a refresh, the deletion after an HTTP 400 or the write of a
\* successful device flow, is taken by a process that holds the lock marker.
C24_FileChangedUnderLock ==
    [][/\ \A k \in K : ManagerChangesFile(k) => HoldsLock(Proc(k))
       /\ FlowWritesFile => HoldsLock(FlowProc)]_vars

\* the same for the steps of the manager alone
C24_ManagerChangesUnderLock ==
    [][\A k \in K : ManagerChangesFile(k) => HoldsLock(Proc(k))]_vars

\* ==================================================================== C25
\* the marker at the path was created by a process other than p less than
\* the stale threshold ago
YoungMarkerOfOther(p) ==
    lock.exists /\ lock.owner # p /\ now - lock.mtime <= 15000

\* call k takes a step of its lock handling that removes the marker
CallRemovesMarker(k) ==
    /\ pc[k] \in {"acquire", "reclaim", "release"}
    /\ pc'[k] # pc[k]
    /\ lock.exists /\ ~lock'.exists

\* process p exits and its hook removes the marker
ExitRemovesMarker(p) ==
    /\ \E k \in K : Proc(k) = p /\ pc[k] # "off"
    /\ \A k \in K : Proc(k) = p => pc'[k] = "off"
    /\ lock.exists /\ ~lock'.exists

\* C25: no step of a process removes a lock marker that another process
\* created less than the stale threshold ago: not the attempt that times
\* out, not the reclaim of a marker judged stale, not the release, not the
\* exit hook.
C25_ForeignMarkerKept ==
    [][/\ \A k \in K : CallRemovesMarker(k) => ~YoungMarkerOfOther(Proc(k))
       /\ \A p \in Procs : ExitRemovesMarker(p) => ~YoungMarkerOfOther(p)]_vars

\* the attempt that times out leaves the marker alone
C25_TimeoutKeepsMarker ==
    [][\A k \in K : pc[k] = "acquire" /\ outcome'[k].err = "LOCK_TIMEOUT"
          => lock' = lock]_vars

\* ==================================================================== C26
\* call k, which created a lock marker during this call, settles
LockedCallSettles(k) ==
    pc[k] # "done" /\ pc'[k] = "done" /\ obs'[k].locked

FailedPoll(resp, bodyReadable) ==
    LET o == PollDeviceToken(resp, bodyReadable) IN
    /\ resp.status \notin {401, 429}
    /\ o.kind = "throw" \/ isErrorResponse(o)

PollsAgain == fobs.polls >= 1 /\ fobs'.polls = fobs.polls + 1

\* C28: a flow sends its next poll request only at the end of a wait of at
\* least the current poll interval, which is at least 2000 ms, whatever the
\* answer to the poll before was.
C28_WaitsBetweenPolls ==
    [][PollsAgain => /\ fpc \in {"waiting", "errwait"}
                     /\ pollInterval >= 2000
                     /\ elapsedTime' >= pollInterval
                     /\ now' - now >= pollInterval]_vars

\* the same for the answers that are pending or failed
C28_WaitsAfterPendingOrError ==
    [][PollsAgain /\ fpc # "polling"
          => /\ fpc \in {"waiting", "errwait"}
             /\ pollInterval >= 2000
             /\ elapsedTime' >= pollInterval
             /\ now' - now >= pollInterval]_vars

\* ==================================================================== C29
\* the time the flow has spent waiting when the step is over: in a device
\* flow on its own the clock moves with the waits of the flow only
WaitedAfterStep == now' - StartTime

\* C29: when a flow sends a poll after the first one, the waits between its
\* polls add up to no more than expires_in seconds.
C29_PollsWithinLifetime ==
    [][PollsAgain => WaitedAfterStep <= fobs.expires_in * 1000]_vars

\* the same for a flow whose polls so far were not answered with slow_down
C29_WithinLifetimeUnlessSlowedDown ==
    [][PollsAgain /\ fobs.polls <= 3
          /\ (\A i \in 1..Len(fobs'.resps) : fobs'.resps[i] # "S")
          => WaitedAfterStep <= fobs.expires_in * 1000]_vars

\* ==================================================================== C30
\* useDeltaAuth.handleAuthProgress: the status shown is the status of the
\* last progress event
authStatus == events.last.status

\* after a progress event with one of the statuses in final the flow sends
\* no poll and emits no event with status polling or success
FinalFor(final) ==
    authStatus \in final
      => /\ fobs'.polls = fobs.polls
         /\ events' # events => events'.last.status \notin {"polling", "success"}

\* C30: once a progress event with status error, timeout or rate_limit has
\* been emitted, the flow sends no further poll and emits no later event
\* with status polling or success.
C30_FinalStatuses == [][FinalFor({"error", "timeout", "rate_limit"})]_vars

\* the same for the statuses timeout and rate_limit alone
C30_TimeoutRateLimitFinal == [][FinalFor({"timeout", "rate_limit"})]_vars

\* no success event follows an error event directly
C30_SuccessAfterError ==
    [][authStatus = "error" => events'.last.status # "success"]_vars

\* ==================================================================== C31
\* getValidCredentials, as called by getDeltaOAuthClient, rejected
ValidateRejected ==
    pc[ValidateCall] = "done" /\ outcome[ValidateCall].err # "none"

\* C31: getDeltaOAuthClient resolves only if getValidCredentials resolved
\* or the device flow returned success; when getValidCredentials rejected
\* and getDeltaOAuthClient has settled, the device flow was run exactly once
\* and a flow that ended in timeout, cancelled, rate_limit or error made
\* getDeltaOAuthClient reject.
C31_ClientOnlyAfterSuccess ==
    /\ client.result = "resolved"
          => \/ pc[ValidateCall] = "done" /\ outcome[ValidateCall].err = "none"
             \/ fResult = "success"
    /\ client.pc = "done" /\ ValidateRejected
          => /\ client.flows = 1
             /\ fpc = "done"
             /\ fResult \in {"timeout", "cancelled", "rate_limit", "error"}
                   => client.result = "rejected"
    /\ client.pc = "done" /\ ~ValidateRejected => client.flows = 0 /\ fpc = "idle"

\* getValidCredentials rejected, the cached record gave no token, the flow
\* timed out and getDeltaOAuthClient rejected
C31_Witness ==
    /\ client.pc = "done" /\ ValidateRejected
    /\ client.flows = 1 /\ fResult = "timeout"
    /\ client.result = "rejected"

\* getValidCredentials rejected, and the client is handed out after a flow
\* that ended in success
C31_WitnessFlowSuccess ==
    /\ client.pc = "done" /\ ValidateRejected
    /\ client.loaded /\ fResult = "success" /\ client.result = "resolved"

\* ==================================================================== C32
\* getAccessToken returns
TokenReturns == client.pc = "token" /\ client'.pc # "token"

\* the record the client holds has an expiry_date more than 30 s ahead
LocallyFresh == 
    LET c == credentials[Proc(TokenCall)] IN
    c.expiry_date # 0 /\ c.expiry_date - now > 30000

\* C32: getAccessToken returns whenever getValidCredentials has settled;
\* after a rejection it returns the client's own access token if the
\* record's expiry_date is set and more than 30 s ahead, and no token
\* otherwise; returning, it sends no refresh request and writes nothing.
C32_AccessTokenFallback ==
    /\ [][TokenReturns =>
            /\ outcome[TokenCall].err # "none" =>
                  client'.token = IF LocallyFresh
                                  THEN credentials[Proc(TokenCall)].access_token
                                  ELSE 0
            /\ outcome[TokenCall].err = "none" =>
                  client'.token = outcome[TokenCall].creds.access_token
            /\ UNCHANGED <<issued, file, lock, credentials>>]_vars
    /\ [](client.pc = "token" /\ pc[TokenCall] = "done" => ENABLED AccessTokenReturned)

\* getValidCredentials rejected and getAccessToken returned the token of
\* the client's own record
C32_Witness ==
    /\ client.pc = "flow"
    /\ outcome[TokenCall].err # "none"
    /\ client.token = 9

\* getValidCredentials rejected and getAccessToken returned no token,
\* although the client holds a token: its record has no expiry_date
C32_WitnessNoToken ==
    /\ client.pc = "flow"
    /\ outcome[TokenCall].err # "none"
    /\ credentials[Proc(TokenCall)] = Creds(9, 1, 0)
    /\ client.token = 0

\* ==================================================================== C33
\* call k has started a refresh that has not settled: it is between the
\* decision to refresh and the release of the lock
RefreshOutstanding(k) ==
    pc[k] \in {"acquire", "reclaim", "recheck", "refreshing", "persist", "release"}

\* C33: isRefreshInProgress is true exactly while a call of the process has
\* a refresh outstanding; when that call settles, with a record or with an
\* error, it is false in the same step.
C33_InProgressIffOutstanding ==
    /\ [](\A p \in Procs :
            isRefreshInProgress(p) <=> \E k \in K : Proc(k) = p /\ RefreshOutstanding(k))
    /\ [][\A k \in K : RefreshOutstanding(k) /\ pc'[k] = "done"
              => ~isRefreshInProgress(Proc(k))']_vars

\* a refresh failed, and the next call of the same process has started a
\* refresh of its own
C33_Witness ==
    \E k \in K, j \in K :
        /\ k # j /\ Proc(k) = Proc(j)
        /\ pc[k] = "done" /\ outcome[k].err \in {"REFRESH_FAILED", "NETWORK_ERROR"}
        /\ outcome[k].via # "shared"
        /\ pc[j] = "refreshing" /\ ~obs[j].joined
        /\ isRefreshInProgress(Proc(j))

\* ==================================================================== C34
\* the stat of call k has returned or failed
StatOver(k) == pc[k] = "stat" /\ pc'[k] # "stat"

C34_WitnessFileError ==
    \E k \in K : pc[k] = "done" /\ outcome[k].err = "FILE_ERROR"

\* ==================================================================== C35
\* enqueueLogEvent is called with event e
Enqueues(e) == lobs.nextId = e /\ lobs'.nextId = e + 1

Settles(f) ==
    /\ f \in flights
    /\ \A g \in flights' : g.events # f.events

\* C37: when a flushToRum call settles, isFlushInProgress is false again,
\* unless the pending flush it started is under way.
C37_FlagResetWhenSettled ==
    [][\A f \in flights : Settles(f) =>
          (logger'.isFlushInProgress => flights' # {})]_vars

\* the same for the calls that settle after the payload was built
C37_FlagResetAfterSend ==
    [][\A f \in flights : Settles(f) /\ f.stage = "sending" =>
          (logger'.isFlushInProgress => flights' # {})]_vars

\* ==================================================================== C36
\* flushToRum is called from outside
FlushCalled == lobs'.calls = lobs.calls + 1

\* every event logged so far is in the queue, held by a flush under way,
\* sent, or was dropped by the capacity of the queue or the retry limit
NothingLost ==
    \A e \in 1..(lobs.nextId - 1) :
        \/ e \in Range(logger.events)
        \/ \E f \in flights : e \in Range(f.events)
        \/ lobs.sent[e] >= 1
        \/ e \in lobs.dropped

FlushesOneAtATime ==
    /\ [](Cardinality(flights) <= 1)
    /\ [](\A e \in 1..(lobs.nextId - 1) : lobs.sent[e] <= 1)
    /\ [][FlushCalled /\ logger.isFlushInProgress =>
            /\ logger'.pendingFlush
            /\ flights' = flights
            /\ logger'.events = logger.events
            /\ lobs'.sent = lobs.sent /\ lobs'.began = lobs.began]_vars

\* C36: at most one flush is under way; a call made meanwhile sends
\* nothing and marks a pending flush; when the flush under way is over
\* with a pending flush marked, exactly one flush is started and the mark
\* is taken back; no event is sent twice.
C36_OneFlushAtATime ==
    /\ FlushesOneAtATime
    /\ [][\A f \in flights : Settles(f) /\ logger.pendingFlush =>
            ~logger'.pendingFlush /\ lobs'.began = lobs.began + 1]_vars

\* the same as long as every payload could be built, and no event gets
\* lost on the way then
C36_UnlessPayloadFails ==
    /\ FlushesOneAtATime
    /\ [](~lobs.payloadFailed => NothingLost)
    /\ [][\A f \in flights : Settles(f) /\ logger.pendingFlush /\ ~lobs'.payloadFailed =>
            ~logger'.pendingFlush /\ lobs'.began = lobs.began + 1]_vars

\* -------------------------------------------------------------- useDeltaAuth
\* the state set where authentication is off and by cancelDeltaAuth
Reset(u) == [u EXCEPT !.isDeltaAuthenticating = FALSE, !.deviceAuth = FALSE,
                      !.authStatus = "idle", !.authMessage = "none"]

\* handleAuthProgress: the status and the message of the event are shown
HandleAuthProgress(u, e) ==
    [u EXCEPT !.authStatus = e.status, !.authMessage = e.message]

\* handleDeviceAuth: the device authorization is shown
HandleDeviceAuth(u) == [u EXCEPT !.deviceAuth = TRUE, !.authStatus = "polling"]

\* the emitter has called the listeners for every event of the flow
Synced == ui.seen = events.count

otherVars == <<file, lock, issued, memoryCache, credentials,
               refreshPromise, pending, pc, forceRefresh, attempt, outcome,
               obs, client, loggerVars, keysVars>>

\* isAuthenticating becomes true: the effect marks the hook as
\* authenticating and registers the listeners
StartAuthenticating ==
    /\ Synced
    /\ ~ui.isAuthenticating
    /\ ui' = [ui EXCEPT !.isAuthenticating = TRUE, !.listening = TRUE,
                        !.isDeltaAuthenticating = TRUE, !.authStatus = "idle",
                        !.afterCancel = FALSE]
    /\ UNCHANGED <<now, flowVars, otherVars>>

\* isAuthenticating becomes false: the cleanup of the effect removes the
\* listeners and the effect resets the state
StopAuthenticating ==
    /\ Synced
    /\ ui.isAuthenticating
    /\ ui' = [Reset(ui) EXCEPT !.isAuthenticating = FALSE, !.listening = FALSE]
    /\ UNCHANGED <<now, flowVars, otherVars>>

\* cancelDeltaAuth: AuthCancel is published, which the handler of a running
\* flow takes note of, and the state is reset
CancelDeltaAuth ==
    /\ Synced
    /\ ui.isAuthenticating
    /\ ~ui.afterCancel
    /\ IF fpc \in {"start", "polling", "saving", "waiting", "errwait"} /\ ~isCancelled
       THEN /\ isCancelled' = TRUE
            /\ fobs' = [fobs EXCEPT !.cancelIn = fpc, !.cancelPolls = fobs.polls]
       ELSE UNCHANGED <<isCancelled, fobs>>
    /\ ui' = [Reset(ui) EXCEPT !.afterCancel = TRUE]
    /\ UNCHANGED <<now, otherVars, fpc, fAttempt, fMax, pollInterval,
                   elapsedTime, fResult, events>>

\* the emitter calls the listeners, within the step of the flow that
\* emitted: AuthUri goes before the first AuthProgress of a flow, and of
\* several AuthProgress events the last one is what the state keeps
ListenersCalled ==
    /\ ~Synced
    /\ ui' = IF ~ui.listening THEN [ui EXCEPT !.seen = events.count]
             ELSE LET u == IF ui.seen = 0 THEN HandleDeviceAuth(ui) ELSE ui IN
                  [HandleAuthProgress(u, events.last) EXCEPT !.seen = events.count]
    /\ UNCHANGED <<now, flowVars, otherVars>>

InitAuthDialog == InitDeviceFlow

\* the flow is started while the dialog is authenticating and has not been
\* cancelled; the listeners run before anything else happens

NextAuthDialog ==
    \/ StartAuthenticating
    \/ StopAuthenticating
    \/ CancelDeltaAuth
    \/ ListenersCalled
    \/ Synced /\ ui.isAuthenticating /\ ~ui.afterCancel /\ AuthWithDeltaDeviceFlow
    \/ Synced /\ \E ok \in BOOLEAN, e \in ShortExpiresIn : DeviceAuthorizationResponds(ok, e)
    \/ Synced /\ \E resp \in PollResponses, b \in BOOLEAN : PollResponds(resp, b)
    \/ Synced /\ \E ok \in BOOLEAN : CacheDeltaCredentials(ok)
    \/ Synced /\ WaitTick
    \/ Synced /\ ErrorWaitPasses

\* the authentication dialog and one device flow
SpecAuthDialog == InitAuthDialog /\ [][NextAuthDialog]_vars

NoTimerFiredOnFocus == ~kobs.late

KeysAtRest ==
    /\ stdin = <<>>
    /\ kobs.split = 0
    /\ keypress.focusSeqState = 0
    /\ keypress.focusKeypressState = 0

C38_WitnessHeld ==
    /\ keypress.heldFocusPrefix = <<"ESC", "[">>
    /\ NoTimerFiredOnFocus
    /\ kobs.typed # <<>>

\* ==================================================================== C39
\* the keys of the user among the keys delivered
DeliveredOfUser ==
    LET u == SelectSeq(kobs.delivered, LAMBDA d : d.origin = "user") IN
    [i \in 1..Len(u) |-> u[i].sequence]

\* C39: once nothing is on its way, the keys of the user that were
\* delivered are the keys typed, each once and in the order typed.
C39_EveryKeyOnceInOrder ==
    KeysAtRest => DeliveredOfUser = kobs.typed

\* the same where readline reads stdin itself, with no raw data watcher
C39_WithoutRawWatcher ==
    (KeysAtRest /\ ~keypress.usePassthrough) => DeliveredOfUser = kobs.typed

\* without the raw data watcher a key was typed after a focus change
C39_WitnessWithoutRawWatcher ==
    /\ KeysAtRest
    /\ ~keypress.usePassthrough
    /\ kobs.focus > 0
    /\ kobs.typed # <<>>

\* ==================================================================== C40
\* C40: from cancelDeltaAuth until authentication is started again the
\* state is idle, with no device authorization and no message.
C40_IdleAfterCancel ==
    ui.afterCancel =>
        /\ ui.authStatus = "idle"
        /\ ~ui.deviceAuth
        /\ ui.authMessage = "none"

\* the same as long as the flow has emitted nothing since
C40_IdleUntilNextEvent ==
    [][(ui.afterCancel /\ ui'.afterCancel /\ ui.authStatus = "idle"
        /\ ui.authMessage = "none" /\ ~ui.deviceAuth /\ events' = events /\ Synced)
       => (ui'.authStatus = "idle" /\ ui'.authMessage = "none" /\ ~ui'.deviceAuth)]_vars

\* right after cancelDeltaAuth the state is reset
C40_ResetByCancel ==
    [][(~ui.afterCancel /\ ui'.afterCancel)
       => (ui'.authStatus = "idle" /\ ui'.authMessage = "none" /\ ~ui'.deviceAuth
           /\ ~ui'.isDeltaAuthenticating)]_vars
====
